---------------------------- MODULE Spec2Model ----------------------------
(***************************************************************************)
(* A model of zemax2raysect: the surface classifier, the lens and mirror   *)
(* builders of the three optical families, the material lookup and the     *)
(* sequential walk of OpticalNodeBuilder.build.                            *)
(*                                                                         *)
(* Numbers.  Every length (radius, thickness, semi-diameter, decenter) is  *)
(* an integer count of nanometres (1e-9 m), so that the floor 1.0e-8 of    *)
(* the builders is the integer 10 and DEFAULT_THICKNESS = 1.0e-6 is 1000.  *)
(* The relative padding thickness * 1.0e-6 of _build_lens is kept in a     *)
(* separate component of the translation (field p, counted in units of     *)
(* 1e-6 nanometre), so that it is added exactly.  An infinite thickness is *)
(* the value Inf; a transform that received a non-finite translation has   *)
(* nf = TRUE.  Rotations are by multiples of 90 degrees and are exact.     *)
(***************************************************************************)
EXTENDS Integers, Sequences, FiniteSets, TLC

VARIABLES
    surfaces,              \* build(surfaces, ...): the sequence walked
    materials,             \* build(..., materials=...): the override map
    keep_empty_surfaces,   \* self._keep_empty_surfaces
    transmission_only,     \* self._transmission_only
    idx,                   \* the local idx of build
    current_transform,     \* self._current_transform
    current_direction,     \* self._current_direction
    mirrors_passed,        \* self._mirrors_passed
    children,              \* node.children, in order of parenting
    last_exception,        \* self._last_exception (set by _build_mirror)
    material_attr,         \* material object -> its transmission_only attribute
    status,                \* "idle", "running", "returned", "raised"
    raised,                \* the exception that left build
    hist,                  \* what each iteration of the walk did (history)
    call,                  \* a direct call of a function of the package
    result,                \* what that call returned or raised
    earlier,               \* the node an earlier build returned, as its caller holds it
    reference,             \* the last call of set_node_global_reference on the node
    reader                 \* ZMXreader.read: the file, the loop position, self.surfaces

vars == <<surfaces, materials, keep_empty_surfaces, transmission_only, idx,
          current_transform, current_direction, mirrors_passed, children,
          last_exception, material_attr, status, raised, hist, call, result,
          earlier, reference, reader>>

buildVars == <<surfaces, materials, keep_empty_surfaces, transmission_only, idx,
               current_transform, current_direction, mirrors_passed, children,
               last_exception, material_attr, status, raised, hist,
               earlier, reference>>

callVars == <<call, result>>

readerVars == <<reader>>

-----------------------------------------------------------------------------
(* Bounds and program constants *)

MaxSurfaces == 2

SMALL_NUMBER == 10

DEFAULT_THICKNESS == 1000

EQUAL_TOLERANCE == 10

Inf == 1000 * 1000 * 1000

None == "None"

-----------------------------------------------------------------------------
(* raysect.core.AffineMatrix3D, restricted to rigid motions whose rotation *)
(* part has integer entries.  r is the 3x3 part, t + p * 1e-6 the          *)
(* translation column.                                                     *)

Vec(x, y, z) == <<x, y, z>>

VecAdd(a, b) == <<a[1] + b[1], a[2] + b[2], a[3] + b[3]>>

RotVec(r, v) ==
    << r[1][1] * v[1] + r[1][2] * v[2] + r[1][3] * v[3],
       r[2][1] * v[1] + r[2][2] * v[2] + r[2][3] * v[3],
       r[3][1] * v[1] + r[3][2] * v[2] + r[3][3] * v[3] >>

\* entry (i, j) of the product of two 3x3 matrices
RotEntry(a, b, i, j) == a[i][1] * b[1][j] + a[i][2] * b[2][j] + a[i][3] * b[3][j]

RotMul(a, b) ==
    << <<RotEntry(a, b, 1, 1), RotEntry(a, b, 1, 2), RotEntry(a, b, 1, 3)>>,
       <<RotEntry(a, b, 2, 1), RotEntry(a, b, 2, 2), RotEntry(a, b, 2, 3)>>,
       <<RotEntry(a, b, 3, 1), RotEntry(a, b, 3, 2), RotEntry(a, b, 3, 3)>> >>

IdentityR == <<<<1, 0, 0>>, <<0, 1, 0>>, <<0, 0, 1>>>>

AffineMatrix3D == [r |-> IdentityR, t |-> Vec(0, 0, 0), p |-> Vec(0, 0, 0), nf |-> FALSE]

MatMul(a, b) ==
    [r  |-> RotMul(a.r, b.r),
     t  |-> VecAdd(a.t, RotVec(a.r, b.t)),
     p  |-> VecAdd(a.p, RotVec(a.r, b.p)),
     nf |-> a.nf \/ b.nf]

translate(x, y, z) ==
    IF z = Inf
    THEN [r |-> IdentityR, t |-> Vec(x, y, 0), p |-> Vec(0, 0, 0), nf |-> TRUE]
    ELSE [r |-> IdentityR, t |-> Vec(x, y, z), p |-> Vec(0, 0, 0), nf |-> FALSE]

\* translate(0, 0, thickness + thickness * 1.0e-6)
translatePadded(z) ==
    IF z = Inf
    THEN translate(0, 0, Inf)
    ELSE [r |-> IdentityR, t |-> Vec(0, 0, z), p |-> Vec(0, 0, z), nf |-> FALSE]

Cos(deg) == CASE deg = 0 -> 1 [] deg = 90 -> 0 [] deg = 180 -> 0 - 1 [] deg = 270 -> 0

Sin(deg) == CASE deg = 0 -> 0 [] deg = 90 -> 1 [] deg = 180 -> 0 [] deg = 270 -> 0 - 1

Rotation(r) == [r |-> r, t |-> Vec(0, 0, 0), p |-> Vec(0, 0, 0), nf |-> FALSE]

rotate_x(deg) ==
    Rotation(<< <<1, 0, 0>>, <<0, Cos(deg), 0 - Sin(deg)>>, <<0, Sin(deg), Cos(deg)>> >>)

rotate_y(deg) ==
    Rotation(<< <<Cos(deg), 0, Sin(deg)>>, <<0, 1, 0>>, <<0 - Sin(deg), 0, Cos(deg)>> >>)

rotate_z(deg) ==
    Rotation(<< <<Cos(deg), 0 - Sin(deg), 0>>, <<Sin(deg), Cos(deg), 0>>, <<0, 0, 1>> >>)

Abs(x) == IF x < 0 THEN 0 - x ELSE x

sign(x) == IF x > 0 THEN 1 ELSE IF x < 0 THEN 0 - 1 ELSE 0


-----------------------------------------------------------------------------
(* zemax2raysect.surface: the Surface dataclasses.  One record shape holds *)
(* every variant; kind is the class.  A Python None of aperture and        *)
(* aperture_decenter is the flag has_aperture / has_decenter being FALSE.  *)
(* aperture_type is no field of the dataclass: "" stands for the attribute *)
(* being absent (every surface the factory makes), another value for a     *)
(* surface on which the caller has set it.                                 *)

Surface(kind, name, radius, radius_horizontal, thickness, material, semi_diameter) ==
    [kind |-> kind, name |-> name, radius |-> radius,
     radius_horizontal |-> radius_horizontal, thickness |-> thickness,
     material |-> material, semi_diameter |-> semi_diameter,
     has_aperture |-> FALSE, aperture |-> <<0, 0>>, aperture_type |-> "",
     has_decenter |-> FALSE, aperture_decenter |-> <<0, 0>>,
     decenter_x |-> 0, decenter_y |-> 0, tilt_x |-> 0, tilt_y |-> 0, tilt_z |-> 0]

Standard(name, radius, thickness, material, semi_diameter) ==
    Surface("Standard", name, radius, 0, thickness, material, semi_diameter)

Toroidal(name, radius, radius_horizontal, thickness, material, semi_diameter) ==
    Surface("Toroidal", name, radius, radius_horizontal, thickness, material, semi_diameter)

Tilted(name, thickness, material, semi_diameter) ==
    Surface("Tilted", name, 0, 0, thickness, material, semi_diameter)

CoordinateBreak(thickness, decenter_x, decenter_y, tilt_x, tilt_y, tilt_z) ==
    [Surface("CoordinateBreak", "", 0, 0, thickness, "", 0) EXCEPT
        !.decenter_x = decenter_x, !.decenter_y = decenter_y,
        !.tilt_x = tilt_x, !.tilt_y = tilt_y, !.tilt_z = tilt_z]

WithAperture(s, w, h, aperture_type) ==
    [s EXCEPT !.has_aperture = TRUE, !.aperture = <<w, h>>, !.aperture_type = aperture_type]

WithDecenter(s, x, y) ==
    [s EXCEPT !.has_decenter = TRUE, !.aperture_decenter = <<x, y>>]

isCoordinateBreak(s) == s.kind = "CoordinateBreak"

\* CoordinateBreak.matrix with the decenter along y left out
matrix_without_decenter_y(s) ==
    MatMul(MatMul(MatMul(translate(s.decenter_x, 0, 0), rotate_x(s.tilt_x)),
                  rotate_y(s.tilt_y)),
           rotate_z(s.tilt_z))

\* CoordinateBreak.matrix
matrix(s) ==
    MatMul(MatMul(MatMul(translate(s.decenter_x, s.decenter_y, 0), rotate_x(s.tilt_x)),
                  rotate_y(s.tilt_y)),
           rotate_z(s.tilt_z))

-----------------------------------------------------------------------------
(* An operator that models a Python call returns a record: ok = TRUE with  *)
(* the value, or ok = FALSE with the exception raised (its class and the   *)
(* builder that raised it).                                                *)

Raise(type, origin) == [ok |-> FALSE, exc |-> [type |-> type, origin |-> origin]]

Return(val) == [ok |-> TRUE, val |-> val]

-----------------------------------------------------------------------------
(* Text and numbers of a ZMX file.  A line is the sequence of its columns  *)
(* (line.strip().split()), each column a string.  A Python float read from *)
(* the file is an integer count of 1/FloatUnit; a units factor is the      *)
(* number of nanometres in 1/FloatUnit of a file unit: 1.0 (metres) is     *)
(* MetreFactor, 1.0e-3 (millimetres) is MillimetreFactor.                  *)

FloatUnit == 100

MetreFactor == 10 * 1000 * 1000

MillimetreFactor == 10 * 1000

\* float(value): the columns the model reads as numbers; any other raises ValueError
FloatColumns ==
    [c \in {"0", "0.02", "-0.02", "0.03", "0.04", "1", "2", "-4", "4", "90"} |->
        CASE c = "0" -> 0 [] c = "0.02" -> 2 [] c = "-0.02" -> 0 - 2 [] c = "0.03" -> 3
          [] c = "0.04" -> 4 [] c = "1" -> 100 [] c = "2" -> 200 [] c = "-4" -> 0 - 400
          [] c = "4" -> 400 [] c = "90" -> 9000]

float(value) ==
    IF value \in DOMAIN FloatColumns THEN Return(FloatColumns[value])
    ELSE Raise("ValueError", "float")

\* int(value)
IntColumns ==
    [c \in {"0", "1", "2", "3", "4", "5", "6"} |->
        CASE c = "0" -> 0 [] c = "1" -> 1 [] c = "2" -> 2 [] c = "3" -> 3
          [] c = "4" -> 4 [] c = "5" -> 5 [] c = "6" -> 6]

int(value) ==
    IF value \in DOMAIN IntColumns THEN Return(IntColumns[value])
    ELSE Raise("ValueError", "int")

\* 1 / curv
reciprocal(curv) == (FloatUnit * FloatUnit) \div curv

\* value * units_factor, a length in nanometres
scaled(value, units_factor) == value * units_factor

\* a tilt of a coordinate break, in whole degrees
degrees(value) == value \div FloatUnit

-----------------------------------------------------------------------------
(* zemax2raysect.surface: SurfaceDescription and its parser *)

SurfaceDescription ==
    [n |-> 0 - 1, name |-> "", type |-> "", curv |-> 0, disz |-> 0, glas |-> "",
     diam |-> 0, has_sqap |-> FALSE, sqap |-> <<0, 0>>, has_obdc |-> FALSE,
     obdc |-> <<0, 0>>, parm |-> [k \in {} |-> 0]]

\* a parameter map that keeps the value a key already has
parm_set_keeping_first(parm, key, value) ==
    [k \in DOMAIN parm \cup {key} |->
        IF k \in DOMAIN parm THEN parm[k] ELSE value]

\* description.parm[key] = value
parm_set(parm, key, value) ==
    [k \in DOMAIN parm \cup {key} |-> IF k = key THEN value ELSE parm[k]]

(* fromlines, the body of the for loop on one line whose command is not    *)
(* "SURF": the description after it, or the exception raised.              *)
fromlines_line(description, columns) ==
    LET cmd == columns[1]
        value == columns[2]
        one(f, field) ==
            IF f.ok THEN Return([description EXCEPT ![field] = f.val]) ELSE f
        two(f, g, flag, field) ==
            IF ~f.ok THEN f
            ELSE IF ~g.ok THEN g
            ELSE Return([description EXCEPT ![flag] = TRUE, ![field] = <<f.val, g.val>>])
        keyed(k, f) ==
            IF ~k.ok THEN k
            ELSE IF ~f.ok THEN f
            ELSE Return([description EXCEPT !.parm = parm_set(description.parm, k.val, f.val)])
    IN
    CASE cmd = "COMM" -> Return([description EXCEPT !.name = value])
      [] cmd = "TYPE" -> Return([description EXCEPT !.type = value])
      [] cmd = "CURV" -> one(float(value), "curv")
      [] cmd = "DISZ" -> one(float(value), "disz")
      [] cmd = "GLAS" -> Return([description EXCEPT !.glas = value])
      [] cmd = "DIAM" -> one(float(value), "diam")
      [] cmd = "SQAP" ->
           IF Len(columns) < 3 THEN Raise("IndexError", "fromlines")
           ELSE two(float(columns[2]), float(columns[3]), "has_sqap", "sqap")
      [] cmd = "OBDC" ->
           IF Len(columns) < 3 THEN Raise("IndexError", "fromlines")
           ELSE two(float(columns[2]), float(columns[3]), "has_obdc", "obdc")
      [] cmd = "PARM" ->
           IF Len(columns) < 3 THEN Raise("IndexError", "fromlines")
           ELSE keyed(int(columns[2]), float(columns[3]))
      [] OTHER -> Return(description)

(* fromlines, the for loop from line i on: description is the record so    *)
(* far, next_description the flag of the loop.                             *)
RECURSIVE fromlines_loop(_, _, _, _)
fromlines_loop(lines, i, description, next_description) ==
    IF i > Len(lines) THEN Return(description)
    ELSE IF Len(lines[i]) < 2
    THEN fromlines_loop(lines, i + 1, description, next_description)
    ELSE IF lines[i][1] = "SURF"
    THEN (IF next_description THEN Return(description)
          ELSE LET number(n) ==
                     IF n.ok
                     THEN fromlines_loop(lines, i + 1, [description EXCEPT !.n = n.val], TRUE)
                     ELSE n
               IN number(int(lines[i][2])))
    ELSE LET then(d) ==
               IF d.ok THEN fromlines_loop(lines, i + 1, d.val, next_description) ELSE d
         IN then(fromlines_line(description, lines[i]))

\* SurfaceDescription.fromlines
fromlines(lines) == fromlines_loop(lines, 1, SurfaceDescription, FALSE)

-----------------------------------------------------------------------------
(* zemax2raysect.surface: the factory of surfaces *)

\* SurfaceBuilder(cls).build(description, units_factor); obj = cls() is blank
SurfaceBuilder_build(blank, description, units_factor) ==
    LET placed ==
          [blank EXCEPT
             !.name = description.name,
             !.radius = IF description.curv # 0
                        THEN scaled(reciprocal(description.curv), units_factor)
                        ELSE blank.radius,
             !.thickness = scaled(description.disz, units_factor),
             !.semi_diameter = scaled(description.diam, units_factor),
             !.material = description.glas]
        apertured ==
          IF description.has_sqap
          THEN [placed EXCEPT
                  !.has_aperture = TRUE,
                  !.aperture = <<scaled(description.sqap[1], units_factor),
                                 scaled(description.sqap[2], units_factor)>>]
          ELSE placed
    IN
    IF description.has_obdc
    THEN [apertured EXCEPT
            !.has_decenter = TRUE,
            !.aperture_decenter = <<scaled(description.obdc[1], units_factor),
                                    scaled(description.obdc[2], units_factor)>>]
    ELSE apertured

\* params[k] of the keys named: TRUE when one of them is missing (KeyError)
missing_key(parm, keys) == \E k \in keys : k \notin DOMAIN parm

CoordinateBreak_create(description, units_factor) ==
    IF description.type # "COORDBRK" THEN Raise("ValueError", "CoordinateBreak.create")
    ELSE IF Cardinality(DOMAIN description.parm) < 5
    THEN Raise("IndexError", "CoordinateBreak.create")
    ELSE IF missing_key(description.parm, 1..5)
    THEN Raise("KeyError", "CoordinateBreak.create")
    ELSE Return(CoordinateBreak(scaled(description.disz, units_factor),
                                scaled(description.parm[1], units_factor),
                                scaled(description.parm[2], units_factor),
                                degrees(description.parm[3]),
                                degrees(description.parm[4]),
                                degrees(description.parm[5])))

Standard_create(description, units_factor) ==
    IF description.type # "STANDARD" THEN Raise("ValueError", "Standard.create")
    ELSE Return(SurfaceBuilder_build(Standard("", 0, 0, "", 0), description, units_factor))

\* a Tilted surface with its two tangents
WithTangents(s, tan_x, tan_y) ==
    [f \in DOMAIN s \cup {"tan_x", "tan_y"} |->
        IF f = "tan_x" THEN tan_x ELSE IF f = "tan_y" THEN tan_y ELSE s[f]]

Tilted_create(description, units_factor) ==
    IF description.type # "TILTSURF" THEN Raise("ValueError", "Tilted.create")
    ELSE IF Cardinality(DOMAIN description.parm) # 2
    THEN Raise("IndexError", "Tilted.create")
    ELSE IF missing_key(description.parm, 1..2)
    THEN Raise("KeyError", "Tilted.create")
    ELSE Return(WithTangents(SurfaceBuilder_build(Tilted("", 0, "", 0), description, units_factor),
                             description.parm[1], description.parm[2]))

Toroidal_create(description, units_factor) ==
    IF description.type \notin {"TOROIDAL", "BICONICX"}
    THEN Raise("ValueError", "Toroidal.create")
    ELSE IF Cardinality(DOMAIN description.parm) < 2
    THEN Raise("ValueError", "Toroidal.create")
    ELSE IF missing_key(description.parm, {1})
    THEN Raise("KeyError", "Toroidal.create")
    ELSE Return([SurfaceBuilder_build(Toroidal("", 0, 0, 0, "", 0), description, units_factor)
                   EXCEPT !.radius_horizontal = scaled(description.parm[1], units_factor)])

\* AbstractSurfaceBuilder.builders
SurfaceBuilders ==
    [t \in {"COORDBRK", "STANDARD", "TOROIDAL", "BICONICX", "TILTSURF"} |->
        CASE t = "COORDBRK" -> "CoordinateBreak"
          [] t = "STANDARD" -> "Standard"
          [] t = "TOROIDAL" -> "Toroidal"
          [] t = "BICONICX" -> "Toroidal"
          [] t = "TILTSURF" -> "Tilted"]

\* AbstractSurfaceBuilder().create(description, units_factor)
AbstractSurfaceBuilder_create(description, units_factor) ==
    IF description.type \notin DOMAIN SurfaceBuilders
    THEN Raise("RuntimeError", "AbstractSurfaceBuilder.create")
    ELSE CASE SurfaceBuilders[description.type] = "CoordinateBreak" ->
                CoordinateBreak_create(description, units_factor)
           [] SurfaceBuilders[description.type] = "Standard" ->
                Standard_create(description, units_factor)
           [] SurfaceBuilders[description.type] = "Toroidal" ->
                Toroidal_create(description, units_factor)
           [] SurfaceBuilders[description.type] = "Tilted" ->
                Tilted_create(description, units_factor)

-----------------------------------------------------------------------------
(* zemax2raysect.builders.common *)

\* determine_primitive_type comparing the two radii of a Toroidal exactly
determine_primitive_type_exact(surface) ==
    IF surface.kind \notin {"Standard", "Toroidal"}
    THEN Return([surface_type |-> "UNDETERMINED", shape_type |-> "UNDETERMINED"])
    ELSE IF surface.has_aperture /\ surface.aperture_type = ""
    THEN Raise("AttributeError", "determine_primitive_type")
    ELSE
      LET shape_type == IF surface.has_aperture /\ surface.aperture_type = "rectangular"
                        THEN "RECTANGULAR" ELSE "ROUND"
          rv == Abs(surface.radius)
          rh == Abs(surface.radius_horizontal)
          surface_type ==
            IF surface.kind = "Standard"
            THEN (IF surface.radius = 0 THEN "FLAT" ELSE "SPHERICAL")
            ELSE IF rv = 0 /\ rh = 0 THEN "FLAT"
            ELSE IF rv # 0 /\ rh # 0 /\ rv # rh THEN "TOROIDAL"
            ELSE IF rv # 0 /\ rh # 0 THEN "SPHERICAL"
            ELSE "CYLINDRICAL"
      IN Return([surface_type |-> surface_type, shape_type |-> shape_type])

determine_primitive_type(surface) ==
    IF surface.kind \notin {"Standard", "Toroidal"}
    THEN Return([surface_type |-> "UNDETERMINED", shape_type |-> "UNDETERMINED"])
    ELSE IF surface.has_aperture /\ surface.aperture_type = ""
    THEN Raise("AttributeError", "determine_primitive_type")
    ELSE
      LET shape_type == IF surface.has_aperture /\ surface.aperture_type = "rectangular"
                        THEN "RECTANGULAR" ELSE "ROUND"
          rv == Abs(surface.radius)
          rh == Abs(surface.radius_horizontal)
          equal == Abs(rv - rh) < EQUAL_TOLERANCE
          surface_type ==
            IF surface.kind = "Standard"
            THEN (IF surface.radius = 0 THEN "FLAT" ELSE "SPHERICAL")
            ELSE IF rv = 0 /\ rh = 0 THEN "FLAT"
            ELSE IF rv # 0 /\ rh # 0 /\ ~equal THEN "TOROIDAL"
            ELSE IF rv # 0 /\ rh # 0 /\ equal THEN "SPHERICAL"
            ELSE IF (rv # 0 /\ rh = 0) \/ (rv = 0 /\ rh # 0) THEN "CYLINDRICAL"
            ELSE "UNDETERMINED"
      IN Return([surface_type |-> surface_type, shape_type |-> shape_type])

flip(thickness) ==
    [r |-> << <<0 - 1, 0, 0>>, <<0, 1, 0>>, <<0, 0, 0 - 1>> >>,
     t |-> Vec(0, 0, thickness), p |-> Vec(0, 0, 0), nf |-> (thickness = Inf)]

-----------------------------------------------------------------------------
(* zemax2raysect.materials.  A material is named by a string: the two      *)
(* entries of MATERIALS are module-level objects shared by every caller,   *)
(* NullMaterial() and schott(...) are made anew by each call, "user:..."   *)
(* is an object of the caller's override map.                              *)

MATERIALS == {"MIRROR", "F_SILICA"}

SchottCatalogue == {"N-BK7"}

\* str.upper() and str.lower() on the glass names of the model
Upper(name) ==
    CASE name = "mirror" -> "MIRROR"
      [] name = "f_silica" -> "F_SILICA"
      [] name = "n-bk7"  -> "N-BK7"
      [] name = "unobtainium" -> "UNOBTAINIUM"
      [] OTHER -> name

Lower(name) ==
    CASE name = "MIRROR" -> "mirror"
      [] name = "F_SILICA" -> "f_silica"
      [] name = "N-BK7" -> "n-bk7"
      [] name = "BK7" -> "bk7"
      [] name = "UNOBTAINIUM" -> "unobtainium"
      [] OTHER -> name

\* a in b, for lower-case glass names of the model
IsSubstring(a, b) == a = b \/ (a = "bk7" /\ b = "n-bk7")

find_material(name) ==
    IF name = "" THEN Return("NullMaterial")
    ELSE IF Upper(name) \in MATERIALS
    THEN (IF name \in MATERIALS THEN Return(name) ELSE Raise("KeyError", "find_material"))
    ELSE IF Upper(name) \in SchottCatalogue
    THEN Return("schott")
    ELSE IF \E c \in SchottCatalogue :
              IsSubstring(Lower(name), Lower(c)) \/ IsSubstring(Lower(c), Lower(name))
    THEN Return("schott")
    ELSE Raise("CannotFindMaterial", "find_material")

\* material or find_material(name)
material_or_find(material, name) ==
    IF material # None THEN Return(material) ELSE find_material(name)

-----------------------------------------------------------------------------
(* zemax2raysect.builders.base *)

CannotCreatePrimitive == "CannotCreatePrimitive"

\* _check_for_small_numbers testing the thickness against the floor only
check_for_small_numbers_below_floor(surface) ==
    \/ surface.semi_diameter < SMALL_NUMBER
    \/ surface.thickness < SMALL_NUMBER

\* OpticsBuilder._check_for_small_numbers: TRUE when it raises
check_for_small_numbers(surface) ==
    \/ surface.semi_diameter < SMALL_NUMBER
    \/ (0 < surface.thickness /\ surface.thickness < SMALL_NUMBER)

\* a _check_for_material that refuses the material of a mirror too
check_for_material_refusing_mirror(back_surface) ==
    back_surface.material \in {"", "MIRROR"}

\* LensBuilder._check_for_material: TRUE when it raises
check_for_material(back_surface) == back_surface.material = ""

(* A primitive of the geometry library: its class, the arguments its       *)
(* constructor was given, its material, name and local transform.  A       *)
(* primitive made without a transform has the identity.                    *)
Primitive(cls, args, material, name) ==
    [cls |-> cls, args |-> args, material |-> material, name |-> name,
     transform |-> AffineMatrix3D]

WithTransform(prim, transform) == [prim EXCEPT !.transform = transform]

(* mirror.center_thickness of the spherical and cylindrical mirror         *)
(* primitives: a property the primitive computes from its own geometry.    *)
mirror_center_thickness(mirror) ==
    mirror.args.curvature + DEFAULT_THICKNESS

\* transform_according_to_direction with the rotation in both rows of direction +1
transform_always_rotating(mirror, direction, curvature_sign) ==
    IF direction = 1 /\ curvature_sign # 0
    THEN rotate_y(180)
    ELSE AffineMatrix3D

\* zemax2raysect.builders.common.transform_according_to_direction
transform_according_to_direction(mirror, direction, curvature_sign) ==
    IF direction = 1 /\ curvature_sign = 1
    THEN translate(0, 0, mirror_center_thickness(mirror))
    ELSE IF direction = 1 /\ curvature_sign = 0 - 1
    THEN rotate_y(180)
    ELSE AffineMatrix3D

-----------------------------------------------------------------------------
(* zemax2raysect.builders.spherical: SphericalMirrorBuilder *)

SphericalMirrorBuilder_extract_parameters(surface, material) ==
    LET o == "spherical_mirror"
        extract(t, m) ==
          IF surface.kind \notin {"Standard", "Toroidal"} THEN Raise(CannotCreatePrimitive, o)
          ELSE IF check_for_small_numbers(surface) THEN Raise(CannotCreatePrimitive, o)
          ELSE IF ~t.ok THEN t
          ELSE IF t.val.surface_type # "SPHERICAL" THEN Raise(CannotCreatePrimitive, o)
          ELSE IF t.val.shape_type \notin {"RECTANGULAR", "ROUND"}
          THEN Raise(CannotCreatePrimitive, o)
          ELSE
            LET curvature_sign == sign(surface.radius)
                rect == t.val.shape_type = "RECTANGULAR"
                hd0 == IF surface.has_decenter THEN surface.aperture_decenter[1] ELSE 0
                vd  == IF surface.has_decenter THEN surface.aperture_decenter[2] ELSE 0
                hd  == IF curvature_sign = 0 - 1 THEN 0 - hd0 ELSE hd0
                ap  == IF ~rect /\ surface.has_aperture THEN 2 * surface.aperture[1] ELSE 0
            IN
            IF ~m.ok THEN m
            ELSE Return(
              [shape_type |-> t.val.shape_type,
               curvature_sign |-> curvature_sign,
               material |-> m.val,
               name |-> surface.name,
               args |->
                 IF rect
                 THEN [width |-> 2 * surface.aperture[1], height |-> 2 * surface.aperture[2],
                       curvature |-> Abs(surface.radius), aperture |-> ap,
                       horizontal_decenter |-> hd, vertical_decenter |-> vd]
                 ELSE [diameter |-> IF surface.has_aperture THEN 2 * surface.aperture[2]
                                                            ELSE 2 * surface.semi_diameter,
                       curvature |-> Abs(surface.radius), aperture |-> ap,
                       horizontal_decenter |-> hd, vertical_decenter |-> vd]])
    IN extract(determine_primitive_type(surface), material_or_find(material, surface.material))

SphericalMirrorBuilder_build(surface, direction, material) ==
    LET construct(e) ==
          IF ~e.ok THEN e
          ELSE
            LET mirror == Primitive(IF e.val.shape_type = "ROUND"
                                    THEN "RoundSphericalMirror"
                                    ELSE "RectangularSphericalMirror",
                                    e.val.args, e.val.material, e.val.name)
            IN Return(WithTransform(mirror,
                 transform_according_to_direction(mirror, direction, e.val.curvature_sign)))
    IN construct(SphericalMirrorBuilder_extract_parameters(surface, material))

-----------------------------------------------------------------------------
(* zemax2raysect.builders.cylindrical: CylindricalMirrorBuilder *)

CylindricalMirrorBuilder_extract_parameters(surface, material) ==
    LET o == "cylindrical_mirror"
        extract(t, m) ==
          IF surface.kind # "Toroidal" THEN Raise(CannotCreatePrimitive, o)
          ELSE IF check_for_small_numbers(surface) THEN Raise(CannotCreatePrimitive, o)
          ELSE IF ~t.ok THEN t
          ELSE IF t.val.surface_type # "CYLINDRICAL" THEN Raise(CannotCreatePrimitive, o)
          ELSE IF t.val.shape_type \notin {"RECTANGULAR", "ROUND"}
          THEN Raise(CannotCreatePrimitive, o)
          ELSE IF surface.radius # 0 /\ surface.radius_horizontal # 0
          THEN Raise(CannotCreatePrimitive, o)
          ELSE IF surface.radius = 0 /\ surface.radius_horizontal = 0
          THEN Raise(CannotCreatePrimitive, o)
          ELSE
            LET vertical == surface.radius # 0
                r == IF vertical THEN surface.radius ELSE surface.radius_horizontal
                curvature_sign == sign(r)
                rotation == IF vertical THEN AffineMatrix3D ELSE rotate_z(90)
                rect == t.val.shape_type = "RECTANGULAR"
                hd0 == IF ~surface.has_decenter THEN 0
                       ELSE IF vertical THEN surface.aperture_decenter[1]
                       ELSE 0 - surface.aperture_decenter[2]
                vd  == IF ~surface.has_decenter THEN 0
                       ELSE IF vertical THEN surface.aperture_decenter[2]
                       ELSE surface.aperture_decenter[1]
                hd  == IF curvature_sign = 0 - 1 THEN 0 - hd0 ELSE hd0
                ap  == IF ~rect /\ surface.has_aperture THEN 2 * surface.aperture[1] ELSE 0
            IN
            IF ~m.ok THEN m
            ELSE Return(
              [shape_type |-> t.val.shape_type,
               curvature_sign |-> curvature_sign,
               rotation |-> rotation,
               material |-> m.val,
               name |-> surface.name,
               args |->
                 IF rect
                 THEN [width  |-> 2 * surface.aperture[IF vertical THEN 1 ELSE 2],
                       height |-> 2 * surface.aperture[IF vertical THEN 2 ELSE 1],
                       curvature |-> Abs(r), aperture |-> ap,
                       horizontal_decenter |-> hd, vertical_decenter |-> vd]
                 ELSE [diameter |-> IF surface.has_aperture THEN 2 * surface.aperture[2]
                                                            ELSE 2 * surface.semi_diameter,
                       curvature |-> Abs(r), aperture |-> ap,
                       horizontal_decenter |-> hd, vertical_decenter |-> vd]])
    IN extract(determine_primitive_type(surface), material_or_find(material, surface.material))

CylindricalMirrorBuilder_build(surface, direction, material) ==
    LET construct(e) ==
          IF ~e.ok THEN e
          ELSE
            LET mirror == Primitive(IF e.val.shape_type = "ROUND"
                                    THEN "RoundCylindricalMirror"
                                    ELSE "RectangularCylindricalMirror",
                                    e.val.args, e.val.material, e.val.name)
            IN Return(WithTransform(mirror,
                 MatMul(transform_according_to_direction(mirror, direction, e.val.curvature_sign),
                        e.val.rotation)))
    IN construct(CylindricalMirrorBuilder_extract_parameters(surface, material))

-----------------------------------------------------------------------------
(* zemax2raysect.builders.toroidal: ToricMirrorBuilder *)

ToricMirrorBuilder_extract_parameters(surface, material) ==
    LET o == "toroidal_mirror"
        extract(t, m) ==
          IF surface.kind # "Toroidal" THEN Raise(CannotCreatePrimitive, o)
          ELSE IF check_for_small_numbers(surface) THEN Raise(CannotCreatePrimitive, o)
          ELSE IF ~t.ok THEN t
          ELSE IF t.val.surface_type # "TOROIDAL" THEN Raise(CannotCreatePrimitive, o)
          ELSE IF sign(surface.radius) # sign(surface.radius_horizontal)
          THEN Raise("NotImplementedError", o)
          ELSE IF t.val.shape_type \notin {"RECTANGULAR", "ROUND"}
          THEN Raise(CannotCreatePrimitive, o)
          ELSE IF ~m.ok THEN m
          ELSE Return(
            [curvature_sign |-> sign(surface.radius),
             center_thickness |-> IF Abs(surface.thickness) # 0 THEN Abs(surface.thickness)
                                                               ELSE DEFAULT_THICKNESS,
             material |-> m.val,
             name |-> surface.name,
             args |-> [diameter |-> 2 * surface.semi_diameter,
                       vertical_curvature |-> Abs(surface.radius),
                       horizontal_curvature |-> Abs(surface.radius_horizontal)]])
    IN extract(determine_primitive_type(surface), material_or_find(material, surface.material))

ToricMirrorBuilder_build(surface, direction, material) ==
    LET construct(e) ==
          IF ~e.ok THEN e
          ELSE IF direction = 1 /\ e.val.curvature_sign = 0 - 1
          THEN Return(WithTransform(
                 Primitive("ToricMirror", e.val.args, e.val.material, e.val.name),
                 rotate_y(180)))
          ELSE Return(Primitive("ToricMirror", e.val.args, e.val.material, e.val.name))
    IN construct(ToricMirrorBuilder_extract_parameters(surface, material))

-----------------------------------------------------------------------------
(* zemax2raysect.builders.surface: CircleBuilder, RectangleBuilder *)

CircleBuilder_build(surface, direction, material) ==
    LET o == "circle"
        construct(t, m) ==
          IF surface.semi_diameter < SMALL_NUMBER THEN Raise(CannotCreatePrimitive, o)
          ELSE IF ~t.ok THEN t
          ELSE IF t.val.surface_type # "FLAT" THEN Raise(CannotCreatePrimitive, o)
          ELSE IF t.val.shape_type # "ROUND" THEN Raise(CannotCreatePrimitive, o)
          ELSE IF ~m.ok THEN m
          ELSE Return(Primitive("Circle", [radius |-> surface.semi_diameter],
                                m.val, surface.name))
    IN construct(determine_primitive_type(surface),
                 material_or_find(material, surface.material))

\* build() calls self._extract_parameters(surface): the material argument is dropped
RectangleBuilder_build(surface, direction, material) ==
    LET o == "rectangle"
        construct(t, m) ==
          IF surface.semi_diameter < SMALL_NUMBER THEN Raise(CannotCreatePrimitive, o)
          ELSE IF ~surface.has_aperture THEN Raise(CannotCreatePrimitive, o)
          ELSE IF surface.has_decenter THEN Raise(CannotCreatePrimitive, o)
          ELSE IF ~t.ok THEN t
          ELSE IF t.val.surface_type # "FLAT" THEN Raise(CannotCreatePrimitive, o)
          ELSE IF t.val.shape_type # "RECTANGULAR" THEN Raise(CannotCreatePrimitive, o)
          ELSE IF ~m.ok THEN m
          ELSE Return(Primitive("Rectangle",
                                [width |-> surface.aperture[1] * 2,
                                 height |-> surface.aperture[2] * 2],
                                m.val, surface.name))
    IN construct(determine_primitive_type(surface),
                 material_or_find(None, surface.material))

-----------------------------------------------------------------------------
(* zemax2raysect.builders.flat: CylinderBuilder, create_cylinder *)

CylinderBuilder_build(surface, direction) ==
    LET o == "cylinder"
        construct(t, m) ==
          IF surface.semi_diameter < SMALL_NUMBER THEN Raise(CannotCreatePrimitive, o)
          ELSE IF ~t.ok THEN t
          ELSE IF t.val.surface_type # "FLAT" THEN Raise(CannotCreatePrimitive, o)
          ELSE IF t.val.shape_type # "ROUND" THEN Raise(CannotCreatePrimitive, o)
          ELSE IF ~m.ok THEN m
          ELSE Return(Primitive("Cylinder",
                                [radius |-> surface.semi_diameter,
                                 height |-> IF surface.thickness # 0 THEN surface.thickness
                                                                     ELSE DEFAULT_THICKNESS],
                                m.val, surface.name))
    IN construct(determine_primitive_type(surface), find_material(surface.material))

create_cylinder(surface) == CylinderBuilder_build(surface, 1)

-----------------------------------------------------------------------------
(* zemax2raysect.builders.spherical: SphericalLensBuilder *)

\* back_surface.name or front_surface.name
name_or(back_surface, front_surface) ==
    IF back_surface.name # "" THEN back_surface.name ELSE front_surface.name

\* back_surface.semi_diameter * 2 or front_surface.semi_diameter * 2
diameter_or(back_surface, front_surface) ==
    IF back_surface.semi_diameter * 2 # 0 THEN back_surface.semi_diameter * 2
                                         ELSE front_surface.semi_diameter * 2

SphericalLensBuilder_extract_parameters(back_surface, front_surface, material) ==
    LET o == "spherical_lens"
        extract(bt, ft, m) ==
    IF material = None /\ check_for_material(back_surface) THEN Raise(CannotCreatePrimitive, o)
    ELSE IF check_for_small_numbers(back_surface) THEN Raise(CannotCreatePrimitive, o)
    ELSE IF check_for_small_numbers(front_surface) THEN Raise(CannotCreatePrimitive, o)
    ELSE IF ~bt.ok THEN bt
    ELSE IF ~ft.ok THEN ft
    ELSE IF bt.val.surface_type \notin {"FLAT", "SPHERICAL"} THEN Raise(CannotCreatePrimitive, o)
    ELSE IF ft.val.surface_type \notin {"FLAT", "SPHERICAL"} THEN Raise(CannotCreatePrimitive, o)
    ELSE IF ~m.ok THEN m
    ELSE Return(
        [diameter |-> diameter_or(back_surface, front_surface),
         center_thickness |-> back_surface.thickness,
         back_curvature |-> Abs(back_surface.radius),
         front_curvature |-> Abs(front_surface.radius),
         material |-> m.val,
         name |-> name_or(back_surface, front_surface)])
    IN extract(determine_primitive_type(back_surface),
               determine_primitive_type(front_surface),
               material_or_find(material, back_surface.material))

\* _build_bicurve_lens
SphericalLensBuilder_build_bicurve_lens(lens_class, e) ==
    Return(Primitive(lens_class,
        [diameter |-> e.diameter, center_thickness |-> e.center_thickness,
         back_curvature |-> e.back_curvature, front_curvature |-> e.front_curvature],
        e.material, e.name))

\* _flip_bicurve_lens
SphericalLensBuilder_flip_bicurve_lens(lens_class, e) ==
    Return(WithTransform(
        Primitive(lens_class,
            [diameter |-> e.diameter, center_thickness |-> e.center_thickness,
             back_curvature |-> e.front_curvature, front_curvature |-> e.back_curvature],
            e.material, e.name),
        flip(e.center_thickness)))

\* _build_singlecurve_lens
SphericalLensBuilder_build_singlecurve_lens(lens_class, e) ==
    Return(Primitive(lens_class,
        [diameter |-> e.diameter, center_thickness |-> e.center_thickness,
         curvature |-> e.front_curvature],
        e.material, e.name))

\* _flip_singlecurve_lens
SphericalLensBuilder_flip_singlecurve_lens(lens_class, e) ==
    Return(WithTransform(
        Primitive(lens_class,
            [diameter |-> e.diameter, center_thickness |-> e.center_thickness,
             curvature |-> e.back_curvature],
            e.material, e.name),
        flip(e.center_thickness)))

(* the dispatch with the two flipped plano cells exchanged: (+1, 0) as the  *)
(* flip of PlanoConcave, (-1, 0) as the flip of PlanoConvex                *)
SphericalLensBuilder_dispatch_exchanged(back_surface, e, back_sgn, front_sgn) ==
    IF back_sgn = 0 /\ front_sgn = 0 THEN create_cylinder(back_surface)
    ELSE IF back_sgn < 0 /\ front_sgn < 0
    THEN SphericalLensBuilder_build_bicurve_lens("Meniscus", e)
    ELSE IF back_sgn > 0 /\ front_sgn > 0
    THEN SphericalLensBuilder_flip_bicurve_lens("Meniscus", e)
    ELSE IF back_sgn > 0 /\ front_sgn < 0
    THEN SphericalLensBuilder_build_bicurve_lens("BiConvex", e)
    ELSE IF back_sgn < 0 /\ front_sgn > 0
    THEN SphericalLensBuilder_build_bicurve_lens("BiConcave", e)
    ELSE IF back_sgn = 0
    THEN (IF front_sgn < 0
          THEN SphericalLensBuilder_build_singlecurve_lens("PlanoConvex", e)
          ELSE SphericalLensBuilder_build_singlecurve_lens("PlanoConcave", e))
    ELSE (IF back_sgn > 0
          THEN SphericalLensBuilder_flip_singlecurve_lens("PlanoConcave", e)
          ELSE SphericalLensBuilder_flip_singlecurve_lens("PlanoConvex", e))

\* the dispatch of SphericalLensBuilder.build on (back_sgn, front_sgn)
SphericalLensBuilder_dispatch(back_surface, e, back_sgn, front_sgn) ==
    IF back_sgn = 0 /\ front_sgn = 0 THEN create_cylinder(back_surface)
    ELSE IF back_sgn < 0 /\ front_sgn < 0
    THEN SphericalLensBuilder_build_bicurve_lens("Meniscus", e)
    ELSE IF back_sgn > 0 /\ front_sgn > 0
    THEN SphericalLensBuilder_flip_bicurve_lens("Meniscus", e)
    ELSE IF back_sgn > 0 /\ front_sgn < 0
    THEN SphericalLensBuilder_build_bicurve_lens("BiConvex", e)
    ELSE IF back_sgn < 0 /\ front_sgn > 0
    THEN SphericalLensBuilder_build_bicurve_lens("BiConcave", e)
    ELSE IF back_sgn = 0
    THEN (IF front_sgn < 0
          THEN SphericalLensBuilder_build_singlecurve_lens("PlanoConvex", e)
          ELSE SphericalLensBuilder_build_singlecurve_lens("PlanoConcave", e))
    ELSE IF front_sgn = 0
    THEN (IF back_sgn > 0
          THEN SphericalLensBuilder_flip_singlecurve_lens("PlanoConvex", e)
          ELSE SphericalLensBuilder_flip_singlecurve_lens("PlanoConcave", e))
    ELSE Raise(CannotCreatePrimitive, "spherical_lens_dispatch")

SphericalLensBuilder_build(back_surface, front_surface, material) ==
    LET construct(e) ==
          IF ~e.ok THEN e
          ELSE SphericalLensBuilder_dispatch(back_surface, e.val,
                   sign(back_surface.radius), sign(front_surface.radius))
    IN construct(SphericalLensBuilder_extract_parameters(back_surface, front_surface, material))

-----------------------------------------------------------------------------
(* zemax2raysect.builders.cylindrical: CylindricalLensBuilder.  The        *)
(* primitives take their curvatures by position: arg2 and arg3 are the     *)
(* third and fourth positional arguments.  radius_horizontal is an         *)
(* attribute of Toroidal only.                                             *)

has_radius_horizontal(surface) == surface.kind = "Toroidal"

CylindricalLensBuilder_extract_parameters(back_surface, front_surface, material) ==
    LET o == "cylindrical_lens"
        tail(m, back_curvature, back_sgn, front_curvature, front_sgn, rotation) ==
          IF ~m.ok THEN m
          ELSE Return(
            [diameter |-> diameter_or(back_surface, front_surface),
             center_thickness |-> IF back_surface.thickness # 0 THEN back_surface.thickness
                                                              ELSE DEFAULT_THICKNESS,
             back_curvature |-> back_curvature, back_sgn |-> back_sgn,
             front_curvature |-> front_curvature, front_sgn |-> front_sgn,
             rotation |-> rotation,
             material |-> m.val,
             name |-> name_or(back_surface, front_surface)])
        extract(bt, ft, m) ==
    IF material = None /\ check_for_material(back_surface) THEN Raise(CannotCreatePrimitive, o)
    ELSE IF check_for_small_numbers(back_surface) THEN Raise(CannotCreatePrimitive, o)
    ELSE IF check_for_small_numbers(front_surface) THEN Raise(CannotCreatePrimitive, o)
    ELSE IF ~bt.ok THEN bt
    ELSE IF ~ft.ok THEN ft
    ELSE IF bt.val.surface_type \notin {"FLAT", "CYLINDRICAL"} THEN Raise(CannotCreatePrimitive, o)
    ELSE IF ft.val.surface_type \notin {"FLAT", "CYLINDRICAL"} THEN Raise(CannotCreatePrimitive, o)
    ELSE IF bt.val.surface_type = "FLAT" /\ ft.val.surface_type = "FLAT"
    THEN Raise(CannotCreatePrimitive, o)
    ELSE IF bt.val.shape_type # "ROUND" \/ ft.val.shape_type # "ROUND"
    THEN Raise(CannotCreatePrimitive, o)
    ELSE IF ~has_radius_horizontal(back_surface) THEN Raise("AttributeError", o)
    ELSE IF back_surface.radius_horizontal = 0
    THEN (IF ~has_radius_horizontal(front_surface) THEN Raise("AttributeError", o)
          ELSE IF front_surface.radius_horizontal # 0 THEN Raise("NotImplementedError", o)
          ELSE tail(m, Abs(back_surface.radius), sign(back_surface.radius),
                    Abs(front_surface.radius), sign(front_surface.radius),
                    AffineMatrix3D))
    ELSE IF back_surface.radius = 0
    THEN (IF front_surface.radius # 0 THEN Raise("NotImplementedError", o)
          ELSE IF ~has_radius_horizontal(front_surface) THEN Raise("AttributeError", o)
          ELSE tail(m, Abs(back_surface.radius_horizontal), sign(back_surface.radius_horizontal),
                    Abs(front_surface.radius_horizontal), sign(front_surface.radius_horizontal),
                    rotate_z(90)))
    ELSE IF back_surface.radius # back_surface.radius_horizontal
    THEN Raise(CannotCreatePrimitive, o)
    ELSE Raise("TypeError", o)
    IN extract(determine_primitive_type(back_surface),
               determine_primitive_type(front_surface),
               material_or_find(material, back_surface.material))

\* _build_plano_lens
CylindricalLensBuilder_build_plano_lens(lens_class, e) ==
    Return(WithTransform(
        Primitive(lens_class,
            [diameter |-> e.diameter, center_thickness |-> e.center_thickness,
             arg2 |-> e.front_curvature],
            e.material, e.name),
        e.rotation))

\* _flip_plano_lens
CylindricalLensBuilder_flip_plano_lens(lens_class, e) ==
    Return(WithTransform(
        Primitive(lens_class,
            [diameter |-> e.diameter, center_thickness |-> e.center_thickness,
             arg2 |-> e.back_curvature],
            e.material, e.name),
        MatMul(flip(e.center_thickness), e.rotation)))

\* _build_bi_lens
CylindricalLensBuilder_build_bi_lens(lens_class, e) ==
    Return(WithTransform(
        Primitive(lens_class,
            [diameter |-> e.diameter, center_thickness |-> e.center_thickness,
             arg2 |-> e.front_curvature, arg3 |-> e.back_curvature],
            e.material, e.name),
        e.rotation))

\* _flip_bi_lens
CylindricalLensBuilder_flip_bi_lens(lens_class, e) ==
    Return(WithTransform(
        Primitive(lens_class,
            [diameter |-> e.diameter, center_thickness |-> e.center_thickness,
             arg2 |-> e.back_curvature, arg3 |-> e.front_curvature],
            e.material, e.name),
        MatMul(flip(e.center_thickness), e.rotation)))

\* the dispatch of CylindricalLensBuilder.build on (_back_sgn, _front_sgn)
CylindricalLensBuilder_dispatch(back_surface, e, back_sgn, front_sgn) ==
    IF back_sgn = 0 /\ front_sgn = 0 THEN create_cylinder(back_surface)
    ELSE IF back_sgn < 0 /\ front_sgn < 0
    THEN CylindricalLensBuilder_build_bi_lens("CylindricalMeniscus", e)
    ELSE IF back_sgn > 0 /\ front_sgn > 0
    THEN CylindricalLensBuilder_flip_bi_lens("CylindricalMeniscus", e)
    ELSE IF back_sgn > 0 /\ front_sgn < 0
    THEN CylindricalLensBuilder_build_bi_lens("CylindricalBiConvex", e)
    ELSE IF back_sgn < 0 /\ front_sgn > 0
    THEN CylindricalLensBuilder_build_bi_lens("CylindricalBiConcave", e)
    ELSE IF back_sgn = 0
    THEN (IF front_sgn < 0
          THEN CylindricalLensBuilder_build_plano_lens("CylindricalPlanoConvex", e)
          ELSE CylindricalLensBuilder_build_plano_lens("CylindricalPlanoConcave", e))
    ELSE IF front_sgn = 0
    THEN (IF back_sgn > 0
          THEN CylindricalLensBuilder_flip_plano_lens("CylindricalPlanoConvex", e)
          ELSE CylindricalLensBuilder_flip_plano_lens("CylindricalPlanoConcave", e))
    ELSE Raise(CannotCreatePrimitive, "cylindrical_lens_dispatch")

CylindricalLensBuilder_build(back_surface, front_surface, material) ==
    LET construct(e) ==
          IF ~e.ok THEN e
          ELSE CylindricalLensBuilder_dispatch(back_surface, e.val,
                   e.val.back_sgn, e.val.front_sgn)
    IN construct(CylindricalLensBuilder_extract_parameters(back_surface, front_surface, material))

-----------------------------------------------------------------------------
(* zemax2raysect.builders.toroidal: ToricLensBuilder.  Its build takes     *)
(* (back_surface, front_surface, direction=1, material=None).              *)

ToricLensBuilder_extract_parameters(back_surface, front_surface, material) ==
    LET o == "toroidal_lens"
        extract(bt, ft, m) ==
    IF material = None /\ check_for_material(back_surface) THEN Raise(CannotCreatePrimitive, o)
    ELSE IF check_for_small_numbers(back_surface) THEN Raise(CannotCreatePrimitive, o)
    ELSE IF check_for_small_numbers(front_surface) THEN Raise(CannotCreatePrimitive, o)
    ELSE IF back_surface.kind # "Toroidal" THEN Raise(CannotCreatePrimitive, o)
    ELSE IF front_surface.kind # "Toroidal" THEN Raise(CannotCreatePrimitive, o)
    ELSE IF ~bt.ok THEN bt
    ELSE IF bt.val.surface_type \notin {"FLAT", "TOROIDAL"} THEN Raise(CannotCreatePrimitive, o)
    ELSE IF ~ft.ok THEN ft
    ELSE IF ft.val.surface_type \notin {"FLAT", "TOROIDAL"} THEN Raise(CannotCreatePrimitive, o)
    ELSE IF sign(back_surface.radius) = (0 - 1) * sign(back_surface.radius_horizontal)
    THEN Raise("ValueError", o)
    ELSE IF sign(front_surface.radius) = (0 - 1) * sign(front_surface.radius_horizontal)
    THEN Raise("ValueError", o)
    ELSE IF ~m.ok THEN m
    ELSE Return(
        [diameter |-> back_surface.semi_diameter * 2,
         center_thickness |-> back_surface.thickness,
         back_curvature_vertical |-> Abs(back_surface.radius),
         back_curvature_horizontal |-> Abs(back_surface.radius_horizontal),
         front_curvature_vertical |-> Abs(front_surface.radius),
         front_curvature_horizontal |-> Abs(front_surface.radius_horizontal),
         material |-> m.val,
         name |-> name_or(back_surface, front_surface)])
    IN extract(determine_primitive_type(back_surface),
               determine_primitive_type(front_surface),
               material_or_find(material, back_surface.material))

\* _build_bi_lens
ToricLensBuilder_build_bi_lens(lens_class, e) ==
    Return(Primitive(lens_class,
        [diameter |-> e.diameter, center_thickness |-> e.center_thickness,
         front_curvature_vertical |-> e.front_curvature_vertical,
         front_curvature_horizontal |-> e.front_curvature_horizontal,
         back_curvature_vertical |-> e.back_curvature_vertical,
         back_curvature_horizontal |-> e.back_curvature_horizontal],
        e.material, e.name))

\* _flip_bi_lens
ToricLensBuilder_flip_bi_lens(lens_class, e) ==
    Return(WithTransform(
        Primitive(lens_class,
            [diameter |-> e.diameter, center_thickness |-> e.center_thickness,
             front_curvature_vertical |-> e.back_curvature_vertical,
             front_curvature_horizontal |-> e.back_curvature_horizontal,
             back_curvature_vertical |-> e.front_curvature_vertical,
             back_curvature_horizontal |-> e.front_curvature_horizontal],
            e.material, e.name),
        flip(e.center_thickness)))

\* _build_plano_lens
ToricLensBuilder_build_plano_lens(lens_class, e) ==
    Return(Primitive(lens_class,
        [diameter |-> e.diameter, center_thickness |-> e.center_thickness,
         curvature_vertical |-> e.front_curvature_vertical,
         curvature_horizontal |-> e.front_curvature_horizontal],
        e.material, e.name))

\* _flip_plano_lens
ToricLensBuilder_flip_plano_lens(lens_class, e) ==
    Return(WithTransform(
        Primitive(lens_class,
            [diameter |-> e.diameter, center_thickness |-> e.center_thickness,
             curvature_vertical |-> e.back_curvature_vertical,
             curvature_horizontal |-> e.back_curvature_horizontal],
            e.material, e.name),
        flip(e.center_thickness)))

\* the dispatch of ToricLensBuilder.build on (back_sgn, front_sgn)
ToricLensBuilder_dispatch(back_surface, e, back_sgn, front_sgn) ==
    IF back_sgn = 0 /\ front_sgn = 0 THEN create_cylinder(back_surface)
    ELSE IF back_sgn > 0 /\ front_sgn < 0
    THEN ToricLensBuilder_build_bi_lens("ToricBiConvex", e)
    ELSE IF back_sgn < 0 /\ front_sgn > 0
    THEN ToricLensBuilder_build_bi_lens("ToricBiConcave", e)
    ELSE IF back_sgn < 0 /\ front_sgn < 0
    THEN ToricLensBuilder_build_bi_lens("ToricMeniscus", e)
    ELSE IF back_sgn > 0 /\ front_sgn > 0
    THEN ToricLensBuilder_flip_bi_lens("ToricMeniscus", e)
    ELSE IF back_sgn = 0
    THEN (IF front_sgn < 0
          THEN ToricLensBuilder_build_plano_lens("ToricPlanoConvex", e)
          ELSE ToricLensBuilder_build_plano_lens("ToricPlanoConcave", e))
    ELSE IF front_sgn = 0
    THEN (IF back_sgn > 0
          THEN ToricLensBuilder_flip_plano_lens("ToricPlanoConvex", e)
          ELSE ToricLensBuilder_flip_plano_lens("ToricPlanoConcave", e))
    ELSE Raise(CannotCreatePrimitive, "toroidal_lens_dispatch")

(* direction is 1 or -1.  sign(direction) is then direction itself.       *)
ToricLensBuilder_build(back_surface, front_surface, direction, material) ==
    LET construct(e) ==
          IF ~e.ok THEN e
          ELSE ToricLensBuilder_dispatch(back_surface, e.val,
                   sign(back_surface.radius) * sign(direction),
                   sign(front_surface.radius) * sign(direction))
    IN construct(ToricLensBuilder_extract_parameters(back_surface, front_surface, material))

(* ToricLensBuilder().build(back_surface, front_surface, material), the    *)
(* call AbstractLensBuilder.build makes: the third positional argument is  *)
(* bound to direction and material keeps its default None.  direction is   *)
(* then None or a Material, and sign(direction) raises TypeError.          *)
ToricLensBuilder_build_positional(back_surface, front_surface, third) ==
    LET construct(e) == IF ~e.ok THEN e ELSE Raise("TypeError", "toroidal_lens")
    IN construct(ToricLensBuilder_extract_parameters(back_surface, front_surface, None))

-----------------------------------------------------------------------------
(* zemax2raysect.builders.abstract: the two registries, in dict order *)

MirrorBuilders == <<"toroidal", "spherical", "cylindrical", "rectangle", "circle">>

LensBuilders == <<"toroidal", "spherical", "cylindrical">>

AbstractMirrorBuilder_build(name, surface, direction, material) ==
    CASE name = "toroidal"    -> ToricMirrorBuilder_build(surface, direction, material)
      [] name = "spherical"   -> SphericalMirrorBuilder_build(surface, direction, material)
      [] name = "cylindrical" -> CylindricalMirrorBuilder_build(surface, direction, material)
      [] name = "rectangle"   -> RectangleBuilder_build(surface, direction, material)
      [] name = "circle"      -> CircleBuilder_build(surface, direction, material)

AbstractLensBuilder_build(name, back_surface, front_surface, material) ==
    CASE name = "toroidal"    -> ToricLensBuilder_build_positional(back_surface, front_surface, material)
      [] name = "spherical"   -> SphericalLensBuilder_build(back_surface, front_surface, material)
      [] name = "cylindrical" -> CylindricalLensBuilder_build(back_surface, front_surface, material)

-----------------------------------------------------------------------------
(* zemax2raysect.builders.node: OpticalNodeBuilder.  idx counts from 0 as  *)
(* in the source; surface i of the source is surfaces[i + 1].              *)

NoException == [type |-> "None", origin |-> ""]

n_surfaces == Len(surfaces)

current_surface == surfaces[idx + 1]

\* _process_inf_thickness
process_inf_thickness(surface) == surface.thickness = Inf

\* build, the test under "if not current_surface.material": TRUE when the surface is skipped
skips_empty_surface(surface, i, n, keep) ==
    /\ surface.material = ""
    /\ ~(keep = "image" /\ i = n - 1)
    /\ (i # n - 1 \/ keep = "False")

\* build, the search of the override map (by surface name, then by material name)
material_override(surface, mats) ==
    IF DOMAIN mats = {} THEN None
    ELSE IF surface.name \in DOMAIN mats THEN mats[surface.name]
    ELSE IF surface.material # "" /\ surface.material \in DOMAIN mats THEN mats[surface.material]
    ELSE None

\* build, the test of the lookahead
lookahead(i, surfs) ==
    i + 1 < Len(surfs) /\ ~isCoordinateBreak(surfs[i + 2])

isCCP(r) == ~r.ok /\ r.exc.type = CannotCreatePrimitive

(* _build_lens, the for loop over the registry.  attempts[j] is the        *)
(* outcome of builder j: the loop stops at the first one that does not     *)
(* raise CannotCreatePrimitive; built = FALSE with no exception when every *)
(* builder raised it (the for-else).                                       *)
lens_loop(attempts) ==
    LET stops == {j \in DOMAIN attempts : ~isCCP(attempts[j])}
        stop  == CHOOSE x \in stops : \A y \in stops : x <= y
    IN
    IF stops = {} THEN [built |-> FALSE, exc |-> NoException]
    ELSE IF attempts[stop].ok
    THEN [built |-> TRUE, lens |-> attempts[stop].val, by |-> LensBuilders[stop]]
    ELSE [built |-> FALSE, exc |-> attempts[stop].exc]

build_lens(current, next, material) ==
    LET attempt(j) == AbstractLensBuilder_build(LensBuilders[j], current, next, material)
    IN lens_loop(<<attempt(1), attempt(2), attempt(3)>>)

(* the loop of _build_mirror keeping the first CannotCreatePrimitive it    *)
(* caught instead of the last                                              *)
mirror_loop_keeping_first(attempts, last_before) ==
    LET stops == {j \in DOMAIN attempts : ~isCCP(attempts[j])}
        stop  == IF stops = {} THEN Len(attempts) + 1
                 ELSE CHOOSE x \in stops : \A y \in stops : x <= y
        last  == IF stop = 1 THEN last_before ELSE attempts[1].exc
    IN
    IF stops = {} THEN [built |-> FALSE, exc |-> NoException, last |-> last]
    ELSE IF attempts[stop].ok
    THEN [built |-> TRUE, mirror |-> attempts[stop].val, by |-> MirrorBuilders[stop],
          last |-> last]
    ELSE [built |-> FALSE, exc |-> attempts[stop].exc, last |-> last]

(* _build_mirror, the for loop: likewise; last is self._last_exception as  *)
(* the loop leaves it (the exception of the last builder that raised       *)
(* CannotCreatePrimitive before the loop ended, or the value before).      *)
mirror_loop(attempts, last_before) ==
    LET stops == {j \in DOMAIN attempts : ~isCCP(attempts[j])}
        stop  == IF stops = {} THEN Len(attempts) + 1
                 ELSE CHOOSE x \in stops : \A y \in stops : x <= y
        last  == IF stop = 1 THEN last_before ELSE attempts[stop - 1].exc
    IN
    IF stops = {} THEN [built |-> FALSE, exc |-> NoException, last |-> last]
    ELSE IF attempts[stop].ok
    THEN [built |-> TRUE, mirror |-> attempts[stop].val, by |-> MirrorBuilders[stop],
          last |-> last]
    ELSE [built |-> FALSE, exc |-> attempts[stop].exc, last |-> last]

build_mirror(surface, direction, material, last_before) ==
    LET attempt(j) ==
          AbstractMirrorBuilder_build(MirrorBuilders[j], surface, direction, material)
    IN mirror_loop(<<attempt(1), attempt(2), attempt(3), attempt(4), attempt(5)>>,
                   last_before)

\* _process_mirror: the counter and the direction after it
process_mirror(surface, passed, direction) ==
    IF surface.material # "MIRROR"
    THEN [mirrors_passed |-> passed, current_direction |-> direction]
    ELSE [mirrors_passed |-> passed + 1,
          current_direction |-> IF (passed + 1) % 2 = 1 THEN direction * (0 - 1) ELSE direction]

\* _process_coordinate_break leaving the direction as it was
process_coordinate_break_keeping_direction(surface, transform, direction) ==
    [current_transform |-> MatMul(transform, MatMul(matrix(surface), translate(0, 0, surface.thickness))),
     current_direction |-> direction]

\* _process_coordinate_break: the transform and the direction after it
process_coordinate_break(surface, transform, direction) ==
    [current_transform |-> MatMul(transform, MatMul(matrix(surface), translate(0, 0, surface.thickness))),
     current_direction |-> IF surface.thickness # 0 THEN sign(surface.thickness) ELSE direction]

\* an index that stays on the surface when the next surface opens a lens
index_after_lens_staying(i, next) == IF next.material = "" THEN i + 2 ELSE i

(* build, after _build_lens returned True: idx += 1, and once more when    *)
(* the next surface has no material                                        *)
index_after_lens(i, next) == IF next.material = "" THEN i + 2 ELSE i + 1

\* an advance after a lens that leaves no space before the next lens
lens_advance_without_padding(current, next) ==
    IF next.material # ""
    THEN translate(0, 0, current.thickness)
    ELSE IF current.thickness = Inf \/ next.thickness = Inf
    THEN translate(0, 0, Inf)
    ELSE translate(0, 0, current.thickness + next.thickness)

\* an advance after a lens that leaves out the thickness of its front surface
lens_advance_by_back_surface(current, next) ==
    IF next.material # ""
    THEN translatePadded(current.thickness)
    ELSE translate(0, 0, current.thickness)

\* _build_lens, the advance of the running transform after a lens
lens_advance(current, next) ==
    IF next.material # ""
    THEN translatePadded(current.thickness)
    ELSE IF current.thickness = Inf \/ next.thickness = Inf
    THEN translate(0, 0, Inf)
    ELSE translate(0, 0, current.thickness + next.thickness)

\* materials that expose a transmission_only attribute (Dielectric)
HasTransmissionOnly(material) == material \in {"F_SILICA", "schott", "user:A", "user:B"}

\* _set_transmission_only leaving alone an attribute that is already True
set_transmission_only_keeping_true(kids, attr, value) ==
    [m \in DOMAIN attr |->
        IF \E k \in 1..Len(kids) : kids[k].material = m THEN (attr[m] \/ value) ELSE attr[m]]

\* _set_transmission_only
set_transmission_only(kids, attr, value) ==
    [m \in DOMAIN attr |->
        IF \E k \in 1..Len(kids) : kids[k].material = m THEN value ELSE attr[m]]

-----------------------------------------------------------------------------
(* The inputs of the model *)

\* the caller's override maps
OverrideMaps ==
    { [k \in {} |-> None],
      [k \in {"F_SILICA"} |-> "user:B"],
      [k \in {"L1", "F_SILICA", "UNOBTAINIUM"} |-> IF k = "L1" THEN "user:A" ELSE "user:B"] }

KeepEmptySurfaces == {"False", "True", "image"}

TenMillimetres == 10 * 1000 * 1000

\* the surfaces a build walks
WalkSurfaces ==
    { CoordinateBreak(0 - TenMillimetres, 0, 0, 0, 0, 0),
      CoordinateBreak(0, 3, 4, 0, 0, 0),
      CoordinateBreak(20, 1, 2, 0, 0, 0),
      CoordinateBreak(0, 0, 0, 0, 180, 0),
      Standard("", 0, 20, "", 100),
      Standard("OBJ", 0, Inf, "", 100),
      Standard("M1", 500, 20, "MIRROR", 100),
      Standard("", 0 - 500, 0 - 20, "MIRROR", 100),
      Standard("L1", 500, 20, "F_SILICA", 100),
      Standard("", 0 - 300, 30, "", 100),
      Standard("", 0, 20, "F_SILICA", 100),
      Standard("", 0, 20, "F_SILICA", 0),
      Standard("", 0, 20, "UNOBTAINIUM", 100),
      Toroidal("", 500, 300, 20, "F_SILICA", 100),
      Toroidal("", 0, 500, 20, "MIRROR", 100) }

SurfaceSequences == UNION { [1..n -> WalkSurfaces] : n \in 1..MaxSurfaces }

-----------------------------------------------------------------------------
(* The state after OpticalNodeBuilder() *)

NoCall == [fn |-> "none"]

\* no earlier build has returned a node
NoNode == [held |-> FALSE]

\* set_node_global_reference has not been called on the node
NoReference == [called |-> FALSE]

\* ZMXreader.read has not been called
NoReader == [status |-> "idle"]

Init ==
    /\ surfaces = <<>>
    /\ materials = [k \in {} |-> None]
    /\ keep_empty_surfaces = "False"
    /\ transmission_only = FALSE
    /\ idx = 0
    /\ current_transform = AffineMatrix3D
    /\ current_direction = 1
    /\ mirrors_passed = 0
    /\ children = <<>>
    /\ last_exception = NoException
    /\ material_attr = [m \in {"F_SILICA", "schott", "user:A", "user:B"} |-> FALSE]
    /\ status = "idle"
    /\ raised = NoException
    /\ hist = <<>>
    /\ call = NoCall
    /\ result = NoCall
    /\ earlier = NoNode
    /\ reference = NoReference
    /\ reader = NoReader

-----------------------------------------------------------------------------
(* A later build, by create_optical_node or by build of the same builder,  *)
(* while the caller still holds the node of the build before it.  Of that  *)
(* node the model keeps what a later build can reach: the material objects *)
(* of its children that expose transmission_only, and the value that was   *)
(* requested for them.                                                     *)

\* the surfaces of a later build
LaterSurfaces ==
    { Standard("", 0, 20, "F_SILICA", 100),
      Standard("", 0, 20, "", 100) }

LaterSequences == UNION { [1..n -> LaterSurfaces] : n \in 1..MaxSurfaces }

\* node.children's materials that expose transmission_only
materials_exposing(kids) ==
    {kids[k].material : k \in {j \in 1..Len(kids) : HasTransmissionOnly(kids[j].material)}}

-----------------------------------------------------------------------------
(* build: the entry, up to the while loop *)

BuildBegin ==
    /\ status = "idle"
    /\ call = NoCall
    /\ \E s \in (IF earlier.held THEN LaterSequences ELSE SurfaceSequences),
          m \in OverrideMaps, k \in KeepEmptySurfaces, t \in BOOLEAN :
        /\ surfaces' = s
        /\ materials' = m
        /\ keep_empty_surfaces' = k
        /\ transmission_only' = t
    /\ idx' = 0
    /\ current_transform' = AffineMatrix3D
    /\ current_direction' = 1
    /\ mirrors_passed' = 0
    /\ children' = <<>>
    /\ hist' = <<>>
    /\ status' = "running"
    /\ UNCHANGED <<last_exception, material_attr, raised, call, result,
                   earlier, reference, reader>>

\* one iteration of the while loop is under way
InLoop == status = "running" /\ idx < n_surfaces

\* what an iteration did, for the history
Did(what) ==
    [what |-> what, idx |-> idx, transform |-> current_transform,
     direction |-> current_direction, mirrors_passed |-> mirrors_passed,
     n_children |-> Len(children)]

ProcessCoordinateBreak ==
    /\ InLoop
    /\ isCoordinateBreak(current_surface)
    /\ LET after == process_coordinate_break(current_surface, current_transform, current_direction) IN
        /\ current_transform' = after.current_transform
        /\ current_direction' = after.current_direction
    /\ idx' = idx + 1
    /\ hist' = Append(hist, Did("break"))
    /\ UNCHANGED <<surfaces, materials, keep_empty_surfaces, transmission_only,
                   mirrors_passed, children, last_exception, material_attr,
                   status, raised, call, result,
                   earlier, reference, reader>>

SkipsEmpty ==
    /\ ~isCoordinateBreak(current_surface)
    /\ skips_empty_surface(current_surface, idx, n_surfaces, keep_empty_surfaces)

SkipEmptySurface ==
    /\ InLoop
    /\ SkipsEmpty
    /\ current_transform' =
          IF process_inf_thickness(current_surface) THEN current_transform
          ELSE MatMul(current_transform, translate(0, 0, current_surface.thickness))
    /\ idx' = idx + 1
    /\ hist' = Append(hist, Did("skip"))
    /\ UNCHANGED <<surfaces, materials, keep_empty_surfaces, transmission_only,
                   current_direction, mirrors_passed, children, last_exception,
                   material_attr, status, raised, call, result,
                   earlier, reference, reader>>

SkipsInf ==
    /\ ~isCoordinateBreak(current_surface)
    /\ ~SkipsEmpty
    /\ process_inf_thickness(current_surface)

SkipInfThickness ==
    /\ InLoop
    /\ SkipsInf
    /\ idx' = idx + 1
    /\ hist' = Append(hist, Did("inf"))
    /\ UNCHANGED <<surfaces, materials, keep_empty_surfaces, transmission_only,
                   current_transform, current_direction, mirrors_passed, children,
                   last_exception, material_attr, status, raised, call, result,
                   earlier, reference, reader>>

\* the iteration reaches the builders
ReachesBuilders ==
    /\ ~isCoordinateBreak(current_surface)
    /\ ~SkipsEmpty
    /\ ~process_inf_thickness(current_surface)

material == material_override(current_surface, materials)

next_surface == surfaces[idx + 2]

\* the call self._build_lens(current_surface, next_surface, node, material), when made
LensOutcome ==
    IF lookahead(idx, surfaces)
    THEN build_lens(current_surface, next_surface, material)
    ELSE [built |-> FALSE, exc |-> NoException]

\* _build_mirror called with the direction the surface's own toggle leaves
MirrorOutcome_after_toggle ==
    build_mirror(current_surface,
                 process_mirror(current_surface, mirrors_passed,
                                current_direction).current_direction,
                 material, last_exception)

\* the call self._build_mirror(current_surface, self._current_direction, node, material)
MirrorOutcome ==
    build_mirror(current_surface, current_direction, material, last_exception)

\* the mirror builders tried whatever _build_lens did
LensIgnored == TRUE

\* _build_lens returned False, or the lookahead did not hold
LensFallsThrough ==
    LET falls(L) == ~L.built /\ L.exc = NoException IN falls(LensOutcome)

BuildLens ==
    /\ InLoop
    /\ ReachesBuilders
    /\ LET built(L, after) ==
            /\ L.built
            /\ children' = Append(children,
                   WithTransform(L.lens, MatMul(current_transform, L.lens.transform)))
            /\ mirrors_passed' = after.mirrors_passed
            /\ current_direction' = after.current_direction
       IN built(LensOutcome,
                process_mirror(current_surface, mirrors_passed, current_direction))
    /\ current_transform' = MatMul(current_transform, lens_advance(current_surface, next_surface))
    /\ idx' = index_after_lens(idx, next_surface)
    /\ hist' = Append(hist, Did("lens"))
    /\ UNCHANGED <<surfaces, materials, keep_empty_surfaces, transmission_only,
                   last_exception, material_attr, status, raised, call, result,
                   earlier, reference, reader>>

BuildMirror ==
    /\ InLoop
    /\ ReachesBuilders
    /\ LensFallsThrough
    /\ LET built(M, after) ==
            /\ M.built
            /\ children' = Append(children,
                   WithTransform(M.mirror, MatMul(current_transform, M.mirror.transform)))
            /\ mirrors_passed' = after.mirrors_passed
            /\ current_direction' = after.current_direction
            /\ last_exception' = M.last
       IN built(MirrorOutcome,
                process_mirror(current_surface, mirrors_passed, current_direction))
    /\ current_transform' = MatMul(current_transform, translate(0, 0, current_surface.thickness))
    /\ idx' = idx + 1
    /\ hist' = Append(hist, Did("mirror"))
    /\ UNCHANGED <<surfaces, materials, keep_empty_surfaces, transmission_only,
                   material_attr, status, raised, call, result,
                   earlier, reference, reader>>

\* an exception of a lens builder other than CannotCreatePrimitive leaves build
RaiseFromLens ==
    /\ InLoop
    /\ ReachesBuilders
    /\ LET escapes(L) ==
            /\ ~L.built
            /\ L.exc # NoException
            /\ raised' = L.exc
       IN escapes(LensOutcome)
    /\ status' = "raised"
    /\ hist' = Append(hist, Did("raise"))
    /\ UNCHANGED <<surfaces, materials, keep_empty_surfaces, transmission_only, idx,
                   current_transform, current_direction, mirrors_passed, children,
                   last_exception, material_attr, call, result,
                   earlier, reference, reader>>

(* _build_mirror raised an exception other than CannotCreatePrimitive, or  *)
(* returned False and build raises self._last_exception if the builder has *)
(* the attribute: without it the iteration ends and the loop goes on       *)
RaiseFromMirror ==
    /\ InLoop
    /\ ReachesBuilders
    /\ LensFallsThrough
    /\ LET escapes(M) ==
            /\ ~M.built
            /\ raised' = IF M.exc # NoException THEN M.exc ELSE M.last
            /\ status' = IF M.exc = NoException /\ M.last = NoException
                         THEN "running" ELSE "raised"
            /\ last_exception' = M.last
       IN escapes(MirrorOutcome)
    /\ hist' = Append(hist, Did("raise"))
    /\ UNCHANGED <<surfaces, materials, keep_empty_surfaces, transmission_only, idx,
                   current_transform, current_direction, mirrors_passed, children,
                   material_attr, call, result,
                   earlier, reference, reader>>

\* the loop has ended: _set_transmission_only(node); return node
BuildReturn ==
    /\ status = "running"
    /\ idx >= n_surfaces
    /\ material_attr' = set_transmission_only(children, material_attr, transmission_only)
    /\ status' = "returned"
    /\ UNCHANGED <<surfaces, materials, keep_empty_surfaces, transmission_only, idx,
                   current_transform, current_direction, mirrors_passed, children,
                   last_exception, raised, hist, call, result,
                   earlier, reference, reader>>

\* build has returned and its caller keeps the node: the locals of the call are gone
HoldNode ==
    /\ status = "returned"
    /\ call = NoCall
    /\ ~earlier.held
    /\ ~reference.called
    /\ earlier' = [held |-> TRUE, materials |-> materials_exposing(children),
                   transmission_only |-> transmission_only]
    /\ surfaces' = <<>>
    /\ materials' = [k \in {} |-> None]
    /\ keep_empty_surfaces' = "False"
    /\ transmission_only' = FALSE
    /\ idx' = 0
    /\ current_transform' = AffineMatrix3D
    /\ current_direction' = 1
    /\ mirrors_passed' = 0
    /\ children' = <<>>
    /\ hist' = <<>>
    /\ status' = "idle"
    /\ UNCHANGED <<last_exception, material_attr, raised, call, result, reference, reader>>

-----------------------------------------------------------------------------
(* set_node_global_reference(node, idx) on the node build returned.  The   *)
(* node is a root, so that to_root() of a child is the child's transform.  *)
(* The caller of the model calls it once with any idx, and then once more  *)
(* with the same idx.                                                      *)

Transpose(r) ==
    << <<r[1][1], r[2][1], r[3][1]>>,
       <<r[1][2], r[2][2], r[3][2]>>,
       <<r[1][3], r[2][3], r[3][3]>> >>

Negated(v) == <<0 - v[1], 0 - v[2], 0 - v[3]>>

\* AffineMatrix3D.inverse() of a rigid motion
inverse(m) ==
    [r  |-> Transpose(m.r),
     t  |-> Negated(RotVec(Transpose(m.r), m.t)),
     p  |-> Negated(RotVec(Transpose(m.r), m.p)),
     nf |-> m.nf]

\* the loop taking the placement of child idx anew for every child it changes
set_node_global_reference_recomputing(kids, i) ==
    LET RECURSIVE from(_, _)
        from(done, k) ==
          IF k > Len(done) THEN done
          ELSE from([done EXCEPT ![k] =
                       WithTransform(done[k],
                                     MatMul(inverse(done[i + 1].transform), done[k].transform))],
                    k + 1)
    IN from(kids, 1)

\* set_node_global_reference: node.children after it
set_node_global_reference(kids, i) ==
    LET rebased(transform) ==
          [k \in 1..Len(kids) |->
              WithTransform(kids[k], MatMul(transform, kids[k].transform))]
    IN rebased(inverse(kids[i + 1].transform))

SetNodeGlobalReference ==
    /\ status = "returned"
    /\ call = NoCall
    /\ reference.called => ~reference.again
    /\ \E i \in 0..(Len(children) - 1) :
        /\ reference.called => i = reference.idx
        /\ reference' = [called |-> TRUE, idx |-> i, before |-> children,
                         again |-> reference.called /\ reference.idx = i]
        /\ children' = set_node_global_reference(children, i)
    /\ UNCHANGED <<surfaces, materials, keep_empty_surfaces, transmission_only, idx,
                   current_transform, current_direction, mirrors_passed,
                   last_exception, material_attr, status, raised, hist, call, result,
                   earlier, reader>>

Next ==
    \/ BuildBegin
    \/ ProcessCoordinateBreak
    \/ SkipEmptySurface
    \/ SkipInfThickness
    \/ BuildLens
    \/ BuildMirror
    \/ RaiseFromLens
    \/ RaiseFromMirror
    \/ BuildReturn
    \/ HoldNode
    \/ SetNodeGlobalReference

Spec == Init /\ [][Next]_vars

-----------------------------------------------------------------------------
(* The builders called on their own, as a caller of the package may:       *)
(* XLensBuilder().build(back_surface, front_surface, ...),                 *)
(* AbstractLensBuilder.build(name, ...), AbstractMirrorBuilder.build(...). *)

Radii == {0 - 500, 0 - 300, 0, 300, 500}

\* the faces of the model: every Standard and Toroidal shape over Radii
Faces(thickness, material_name, semi_diameter) ==
    { Standard("", r, thickness, material_name, semi_diameter) : r \in Radii }
    \cup { Toroidal("", r, rh, thickness, material_name, semi_diameter) :
             r \in Radii, rh \in Radii }

BackFaces ==
    Faces(20, "F_SILICA", 100) \cup Faces(20, "", 100)
    \cup { Standard("L1", 0, 0, "F_SILICA", 100),
           Toroidal("L1", 500, 0, 0, "F_SILICA", 100),
           Standard("", 500, 20, "F_SILICA", 0),
           Standard("", 0, 20, "UNOBTAINIUM", 100),
           Standard("", 0, 20, "f_silica", 100),
           WithAperture(Standard("", 500, 20, "F_SILICA", 100), 40, 30, ""),
           WithAperture(Standard("", 0, 20, "F_SILICA", 100), 40, 30, "rectangular") }

FrontFaces ==
    Faces(30, "", 100)
    \cup { Standard("L2", 0 - 500, 30, "", 0),
           WithAperture(Standard("", 0 - 500, 30, "", 100), 40, 30, "") }

MirrorFaces ==
    Faces(20, "MIRROR", 100) \cup Faces(0 - 20, "", 100)
    \cup { Standard("M1", 500, 20, "MIRROR", 0),
           Standard("", 0, 20, "mirror", 100),
           Standard("", 500, 0, "MIRROR", 100),
           Standard("", 500, 5, "MIRROR", 100),
           Toroidal("", 500, 0, 0, "MIRROR", 100),
           Toroidal("", 500, 300, 5, "MIRROR", 100),
           WithAperture(Standard("", 0, 20, "MIRROR", 100), 40, 30, ""),
           WithAperture(Standard("", 0, 20, "MIRROR", 100), 40, 30, "rectangular"),
           WithAperture(Standard("", 0 - 500, 20, "MIRROR", 100), 40, 30, "rectangular"),
           WithDecenter(WithAperture(Standard("", 0 - 500, 20, "MIRROR", 100),
                                     40, 30, "rectangular"), 3, 4),
           WithDecenter(WithAperture(Toroidal("", 0, 0 - 500, 20, "MIRROR", 100),
                                     40, 30, "circular"), 3, 4) }

Directions == {1, 0 - 1}

MaterialArguments == {None, "user:A"}

\* XLensBuilder().build(...) of the family named
LensBuilder_build(family, back_surface, front_surface, direction, material_argument) ==
    CASE family = "spherical" ->
           SphericalLensBuilder_build(back_surface, front_surface, material_argument)
      [] family = "cylindrical" ->
           CylindricalLensBuilder_build(back_surface, front_surface, material_argument)
      [] family = "toroidal" ->
           ToricLensBuilder_build(back_surface, front_surface, direction, material_argument)

CallLensBuilder ==
    /\ status = "idle"
    /\ call = NoCall
    /\ \E family \in {"spherical", "cylindrical", "toroidal"},
          back_surface \in BackFaces, front_surface \in FrontFaces,
          direction \in Directions, m \in MaterialArguments :
        /\ family # "toroidal" => direction = 1
        /\ call' = [fn |-> "lens", family |-> family, back |-> back_surface,
                    front |-> front_surface, direction |-> direction, material |-> m]
        /\ result' = LensBuilder_build(family, back_surface, front_surface, direction, m)
    /\ UNCHANGED <<buildVars, readerVars>>

CallAbstractLensBuilder ==
    /\ status = "idle"
    /\ call = NoCall
    /\ \E j \in DOMAIN LensBuilders,
          back_surface \in BackFaces, front_surface \in FrontFaces,
          m \in MaterialArguments :
        /\ call' = [fn |-> "abstract_lens", family |-> LensBuilders[j],
                    back |-> back_surface, front |-> front_surface,
                    direction |-> 1, material |-> m]
        /\ result' = AbstractLensBuilder_build(LensBuilders[j], back_surface, front_surface, m)
    /\ UNCHANGED <<buildVars, readerVars>>

CallAbstractMirrorBuilder ==
    /\ status = "idle"
    /\ call = NoCall
    /\ \E j \in DOMAIN MirrorBuilders, surface \in MirrorFaces,
          direction \in Directions, m \in MaterialArguments :
        /\ call' = [fn |-> "mirror", family |-> MirrorBuilders[j], surface |-> surface,
                    direction |-> direction, material |-> m]
        /\ result' = AbstractMirrorBuilder_build(MirrorBuilders[j], surface, direction, m)
    /\ UNCHANGED <<buildVars, readerVars>>

NextBuilders ==
    \/ CallLensBuilder
    \/ CallAbstractLensBuilder
    \/ CallAbstractMirrorBuilder

SpecBuilders == Init /\ [][NextBuilders]_vars

-----------------------------------------------------------------------------
(* zemax2raysect.readzmx: ZMXreader.read, from the lines of the file on.   *)
(* reader.i counts the lines the for loop has done; reader.at is history:  *)
(* for each surface appended, the number of the line that started it.      *)

MaxLines == 5

\* the lines a file of the model is made of
FileLines ==
    { <<"UNIT", "MM">>, <<"SURF", "0">>, <<"TYPE", "STANDARD">>,
      <<"DISZ", "0.02">>, <<"CURV", "2">>, <<>> }

\* read, the test of the UNIT line: TRUE when values[0] raises IndexError
unit_line_fails(columns) == columns[1] = "UNIT" /\ Len(columns) < 2

\* the factor a reader that ignores the UNIT line goes on with
unit_converion_factor_kept(columns, factor) == factor

\* read: unit_converion_factor after the test of the UNIT line
unit_converion_factor_after(columns, factor) ==
    IF columns[1] = "UNIT" /\ columns[2] = "MM" THEN MillimetreFactor ELSE factor

\* contents[i:]
lines_from(contents, i) == SubSeq(contents, i + 1, Len(contents))

\* read, on a SURF line: the surface made from the block that starts at line i
read_surface(contents, i, factor) ==
    LET created(d) == IF d.ok THEN AbstractSurfaceBuilder_create(d.val, factor) ELSE d
    IN created(fromlines(lines_from(contents, i)))

ReadBegin ==
    /\ status = "idle"
    /\ call = NoCall
    /\ reader.status = "idle"
    /\ \E n \in 1..MaxLines : \E contents \in [1..n -> FileLines] :
         reader' = [status |-> "running", contents |-> contents, i |-> 0,
                    unit_converion_factor |-> MetreFactor, surfaces |-> <<>>,
                    at |-> <<>>, exc |-> NoException]
    /\ UNCHANGED <<buildVars, callVars>>

\* read: one iteration of the for loop over self.contents
ReadLine ==
    /\ reader.status = "running"
    /\ reader.i < Len(reader.contents)
    /\ LET columns == reader.contents[reader.i + 1]
           fails(exc) == [reader EXCEPT !.status = "raised", !.exc = exc]
           appends(s) ==
             IF s.ok
             THEN [reader EXCEPT !.surfaces = Append(@, s.val),
                                 !.at = Append(@, reader.i), !.i = @ + 1]
             ELSE fails(s.exc)
       IN reader' =
            IF columns = <<>> THEN [reader EXCEPT !.i = @ + 1]
            ELSE IF unit_line_fails(columns)
            THEN fails([type |-> "IndexError", origin |-> "read"])
            ELSE IF columns[1] = "UNIT"
            THEN [reader EXCEPT
                    !.unit_converion_factor = unit_converion_factor_after(columns, @),
                    !.i = @ + 1]
            ELSE IF columns[1] = "SURF"
            THEN appends(read_surface(reader.contents, reader.i,
                                      reader.unit_converion_factor))
            ELSE [reader EXCEPT !.i = @ + 1]
    /\ UNCHANGED <<buildVars, callVars>>

\* read: after the loop, the test of self.surfaces and the return
ReadEnd ==
    /\ reader.status = "running"
    /\ reader.i = Len(reader.contents)
    /\ reader' =
         IF reader.surfaces = <<>>
         THEN [reader EXCEPT !.status = "raised",
                             !.exc = [type |-> "RuntimeError", origin |-> "read"]]
         ELSE [reader EXCEPT !.status = "returned"]
    /\ UNCHANGED <<buildVars, callVars>>

-----------------------------------------------------------------------------
(* The parser, the factory and the classifier called on their own *)

\* the lines a parsed block is made of, after its SURF line
BlockLines ==
    { <<"SURF", "2">>, <<"DISZ", "0.02">>, <<"DISZ", "0.03">>, <<"GLAS", "F_SILICA">>,
      <<"PARM", "1", "0.02">>, <<"PARM", "2", "0.03">>, <<"PARM", "1", "0.04">>,
      <<"XFLD", "1">>, <<"DISZ">>, <<"SQAP", "0.04">> }

CallFromlines ==
    /\ status = "idle"
    /\ reader.status = "idle"
    /\ call = NoCall
    /\ \E n \in 0..(MaxLines - 1) : \E rest \in [1..n -> BlockLines] :
        LET called(lines) ==
              /\ call' = [fn |-> "fromlines", lines |-> lines]
              /\ result' = fromlines(lines)
        IN called(<<<<"SURF", "1">>>> \o rest)
    /\ UNCHANGED <<buildVars, readerVars>>

\* the keyed parameters of the descriptions given to the factory
ParameterMaps ==
    { [k \in keys |-> IF k \in {3, 4, 5} THEN 9000 ELSE k + 1] :
        keys \in { {}, {1}, {2}, {1, 2}, {2, 3}, 1..4, 1..5, 1..6, 0..4, 2..6 } }

Descriptions ==
    { [SurfaceDescription EXCEPT !.type = type, !.parm = parm, !.curv = curv,
                                 !.disz = 2, !.diam = 4, !.glas = "F_SILICA",
                                 !.has_sqap = has_sqap, !.sqap = <<4, 3>>] :
        type \in {"COORDBRK", "STANDARD", "TOROIDAL", "BICONICX", "TILTSURF",
                  "EVENASPH", ""},
        parm \in ParameterMaps, curv \in {0, 200, 0 - 400}, has_sqap \in BOOLEAN }

UnitsFactors == {MetreFactor, MillimetreFactor}

CallSurfaceCreate ==
    /\ status = "idle"
    /\ reader.status = "idle"
    /\ call = NoCall
    /\ \E description \in Descriptions, units_factor \in UnitsFactors :
        /\ call' = [fn |-> "create", description |-> description,
                    units_factor |-> units_factor]
        /\ result' = AbstractSurfaceBuilder_create(description, units_factor)
    /\ UNCHANGED <<buildVars, readerVars>>

\* radii that are equal, within the tolerance of the classifier, and apart
ClassifierRadii == {0 - 505, 0 - 500, 0, 5, 500, 505, 510}

\* surfaces a caller constructs
ConstructedSurfaces ==
    { Standard("", r, 20, "F_SILICA", 100) : r \in ClassifierRadii }
    \cup { Toroidal("", r, rh, 20, "F_SILICA", 100) :
             r \in ClassifierRadii, rh \in ClassifierRadii }
    \cup { WithAperture(Standard("", r, 20, "F_SILICA", 100), 40, 30, "rectangular") :
             r \in ClassifierRadii }
    \cup { Tilted("", 20, "F_SILICA", 100), CoordinateBreak(20, 0, 0, 0, 0, 0) }

\* determine_primitive_type(surface), the surface made by the factory or by the caller
CallDeterminePrimitiveType ==
    /\ status = "idle"
    /\ reader.status = "idle"
    /\ call = NoCall
    /\ \/ \E description \in Descriptions, units_factor \in UnitsFactors :
            LET classify(made) ==
                  /\ made.ok
                  /\ call' = [fn |-> "determine_primitive_type", surface |-> made.val,
                              made_by |-> "factory", description |-> description]
                  /\ result' = determine_primitive_type(made.val)
            IN classify(AbstractSurfaceBuilder_create(description, units_factor))
       \/ \E surface \in ConstructedSurfaces :
            /\ call' = [fn |-> "determine_primitive_type", surface |-> surface,
                        made_by |-> "caller", description |-> SurfaceDescription]
            /\ result' = determine_primitive_type(surface)
    /\ UNCHANGED <<buildVars, readerVars>>

-----------------------------------------------------------------------------
(* zemax2raysect.field: Field and Fields.  A float of a Field is a count   *)
(* of 1e-9: a value given as v is scaled(v, MetreFactor), v * units_factor *)
(* is scaled(v, units_factor).                                             *)

\* Field()
Field ==
    [field_type |-> 0, x |-> 0, y |-> 0, weight |-> scaled(FloatUnit, MetreFactor),
     vdx |-> 0, vdy |-> 0, vcx |-> 0, vcy |-> 0, van |-> 0]

\* name.upper() of the names given to set_attribute
upper(name) ==
    CASE name = "x" -> "X"
      [] name = "y" -> "Y"
      [] name = "weight" -> "WEIGHT"
      [] name = "vdx" -> "VDX"
      [] OTHER -> name

(* Fields.set_attribute(name, values, units_factor) on the list data of    *)
(* field type field_type: the data after it, or the exception.  one_shot   *)
(* is TRUE when values is an iterator (read_fields gives a map object):    *)
(* the loop that fills an empty list then leaves nothing for the zip.      *)
Fields_set_attribute(data, field_type, name, values, one_shot, units_factor) ==
    LET filled == IF data = <<>> THEN [j \in 1..Len(values) |-> Field] ELSE data
        left   == IF data = <<>> /\ one_shot THEN <<>> ELSE values
        stored(v) == IF field_type = 0 /\ upper(name) \in {"XFLN", "YFLN"}
                     THEN scaled(v, MetreFactor)
                     ELSE scaled(v, units_factor)
    IN
    IF filled = <<>> THEN Raise("IndexError", "set_attribute")
    ELSE IF name \notin DOMAIN Field THEN Raise("ValueError", "set_attribute")
    ELSE Return([j \in 1..Len(filled) |->
                    IF j <= Len(left)
                    THEN [filled[j] EXCEPT ![name] = stored(left[j])]
                    ELSE filled[j]])

\* the lists of fields set_attribute is called on
FieldLists ==
    { <<>>, <<Field, Field>>,
      <<[Field EXCEPT !.field_type = 1], [Field EXCEPT !.field_type = 1]>> }

\* the numbers given as values
FieldValues == {2, 0 - 4}

MaxFields == 2

CallSetAttribute ==
    /\ status = "idle"
    /\ reader.status = "idle"
    /\ call = NoCall
    /\ \E data \in FieldLists, field_type \in {0, 1},
          name \in {"x", "y", "weight", "vdx", "XFLN", "YFLN"},
          n \in 0..MaxFields, one_shot \in BOOLEAN, units_factor \in UnitsFactors :
        \E values \in [1..n -> FieldValues] :
          /\ \A j \in 1..Len(data) : data[j].field_type = field_type
          /\ call' = [fn |-> "set_attribute", data |-> data, field_type |-> field_type,
                      name |-> name, values |-> values, one_shot |-> one_shot,
                      units_factor |-> units_factor]
          /\ result' = Fields_set_attribute(data, field_type, name, values, one_shot,
                                            units_factor)
    /\ UNCHANGED <<buildVars, readerVars>>

NextFiles ==
    \/ ReadBegin
    \/ ReadLine
    \/ ReadEnd
    \/ CallFromlines
    \/ CallSurfaceCreate
    \/ CallDeterminePrimitiveType
    \/ CallSetAttribute

SpecFiles == Init /\ [][NextFiles]_vars

-----------------------------------------------------------------------------
(* Properties of build.  hist holds, for every iteration of the loop, the  *)
(* state the iteration started in.                                         *)

HasNoCoordinateBreak == \A j \in 1..Len(surfaces) : ~isCoordinateBreak(surfaces[j])

\* the surface iteration j of the loop worked on
SurfaceOf(j) == surfaces[hist[j].idx + 1]

\* the iterations that built a primitive
Built == {j \in 1..Len(hist) : hist[j].what \in {"lens", "mirror"}}

\* the number of surfaces of material "MIRROR" traversed so far
MirrorsTraversed == Cardinality({j \in Built : SurfaceOf(j).material = "MIRROR"})

(* C1: on a sequence without coordinate break, after k surfaces of         *)
(* material "MIRROR" have been traversed the direction is +1 when k is     *)
(* even and -1 when k is odd.                                              *)
C1_DirectionFollowsParity ==
    (status # "idle" /\ HasNoCoordinateBreak) =>
        current_direction = (IF MirrorsTraversed % 2 = 0 THEN 1 ELSE 0 - 1)

\* the last iteration
LastStep == hist[Len(hist)]

(* C5: an iteration on a CoordinateBreak emits no primitive, multiplies T  *)
(* on the right by matrix * translate(0, 0, thickness), sets the direction *)
(* to sign(thickness) iff the thickness is not zero, leaves the mirror     *)
(* counter alone and advances i by 1; a break of -10 mm without tilt or    *)
(* decenter gives direction -1 and the pure translation by -10 mm along z. *)
C5_CoordinateBreakStep ==
    (hist # <<>> /\ LastStep.what = "break") =>
        LET h == LastStep
            s == SurfaceOf(Len(hist))
        IN
        /\ isCoordinateBreak(s)
        /\ Len(children) = h.n_children
        /\ current_transform =
              MatMul(h.transform, MatMul(matrix(s), translate(0, 0, s.thickness)))
        /\ current_direction = (IF s.thickness # 0 THEN sign(s.thickness) ELSE h.direction)
        /\ mirrors_passed = h.mirrors_passed
        /\ idx = h.idx + 1
        /\ (s = CoordinateBreak(0 - TenMillimetres, 0, 0, 0, 0, 0)) =>
              /\ current_direction = 0 - 1
              /\ current_transform.r = h.transform.r
              /\ current_transform.t =
                    VecAdd(h.transform.t, RotVec(h.transform.r, Vec(0, 0, 0 - TenMillimetres)))

\* a break of nonzero thickness against the running direction has been processed
C5_Witness ==
    /\ hist # <<>>
    /\ LastStep.what = "break"
    /\ SurfaceOf(Len(hist)).thickness < 0
    /\ LastStep.direction = 1
    /\ current_direction = 0 - 1

ZeroTilt(s) == isCoordinateBreak(s) /\ s.tilt_x = 0 /\ s.tilt_y = 0 /\ s.tilt_z = 0

(* C6: two zero-tilt coordinate breaks in a row leave T as one zero-tilt   *)
(* break with the summed decenters and thicknesses does, and emit nothing. *)
C6_BreaksCompose ==
    (/\ Len(hist) >= 2
     /\ hist[Len(hist)].what = "break"
     /\ hist[Len(hist) - 1].what = "break"
     /\ ZeroTilt(SurfaceOf(Len(hist)))
     /\ ZeroTilt(SurfaceOf(Len(hist) - 1))) =>
        LET h  == hist[Len(hist) - 1]
            b1 == SurfaceOf(Len(hist) - 1)
            b2 == SurfaceOf(Len(hist))
        IN
        /\ current_transform =
              MatMul(h.transform,
                     translate(b1.decenter_x + b2.decenter_x,
                               b1.decenter_y + b2.decenter_y,
                               b1.thickness + b2.thickness))
        /\ Len(children) = h.n_children

\* two zero-tilt breaks with decenters have been processed in a row
C6_Witness ==
    /\ Len(hist) >= 2
    /\ hist[Len(hist)].what = "break"
    /\ hist[Len(hist) - 1].what = "break"
    /\ ZeroTilt(SurfaceOf(Len(hist)))
    /\ ZeroTilt(SurfaceOf(Len(hist) - 1))
    /\ SurfaceOf(Len(hist)).decenter_y # 0
    /\ SurfaceOf(Len(hist) - 1).decenter_y # 0

(* C7: a surface without material is skipped never with                    *)
(* keep_empty_surfaces = True, only before the last index with "image",    *)
(* always with False; a skipped surface advances T by its thickness and i  *)
(* by 1 and emits nothing.                                                 *)
C7_KeepEmptyPolicy ==
    /\ \A j \in 1..Len(hist) :
          hist[j].what = "skip" =>
             /\ SurfaceOf(j).material = ""
             /\ keep_empty_surfaces # "True"
             /\ keep_empty_surfaces = "image" => hist[j].idx # n_surfaces - 1
    /\ \A j \in Built :
          (SurfaceOf(j).material = "" /\ keep_empty_surfaces = "image") =>
             hist[j].idx = n_surfaces - 1
    /\ \A j \in Built : keep_empty_surfaces = "False" => SurfaceOf(j).material # ""
    /\ (hist # <<>> /\ LastStep.what = "skip" /\ SurfaceOf(Len(hist)).thickness # Inf) =>
          /\ current_transform =
                MatMul(LastStep.transform, translate(0, 0, SurfaceOf(Len(hist)).thickness))
          /\ idx = LastStep.idx + 1
          /\ Len(children) = LastStep.n_children

(* C8: CannotCreatePrimitive leaves build for a surface only when every    *)
(* lens builder tried on it (if the lookahead held) and every mirror and   *)
(* flat builder raised CannotCreatePrimitive, and it is the one the last   *)
(* mirror or flat builder raised.                                          *)
C8_CannotCreatePrimitiveEscapes ==
    (status = "raised" /\ raised.type = CannotCreatePrimitive) =>
        /\ ReachesBuilders
        /\ lookahead(idx, surfaces) =>
              \A j \in DOMAIN LensBuilders :
                 isCCP(AbstractLensBuilder_build(LensBuilders[j], current_surface,
                                                 next_surface, material))
        /\ \A j \in DOMAIN MirrorBuilders :
              LET r == AbstractMirrorBuilder_build(MirrorBuilders[j], current_surface,
                                                   current_direction, material)
              IN /\ isCCP(r)
                 /\ j = Len(MirrorBuilders) => raised = r.exc

\* CannotCreatePrimitive has left build after the lens builders were tried too
C8_Witness ==
    /\ status = "raised"
    /\ raised.type = CannotCreatePrimitive
    /\ lookahead(idx, surfaces)

(* C9: the primitive built for a surface that has an entry in the override *)
(* map (by name, else by material name) carries that entry as material.    *)
C9_OverrideCarried ==
    \A j \in Built :
        material_override(SurfaceOf(j), materials) # None =>
            children[hist[j].n_children + 1].material
                = material_override(SurfaceOf(j), materials)

-----------------------------------------------------------------------------
(* Properties of the builders *)

\* the pair (back_sgn, front_sgn) the build of a family computes
LensSigns(family, back_surface, front_surface, direction) ==
    CASE family = "spherical" ->
           <<sign(back_surface.radius), sign(front_surface.radius)>>
      [] family = "cylindrical" ->
           IF back_surface.radius_horizontal = 0
           THEN <<sign(back_surface.radius), sign(front_surface.radius)>>
           ELSE <<sign(back_surface.radius_horizontal),
                  sign(front_surface.radius_horizontal)>>
      [] family = "toroidal" ->
           <<sign(back_surface.radius) * direction, sign(front_surface.radius) * direction>>

\* the pair passes _extract_parameters of the family
PassesPreconditions(family, back_surface, front_surface, material_argument) ==
    CASE family = "spherical" ->
           SphericalLensBuilder_extract_parameters(back_surface, front_surface,
                                                   material_argument).ok
      [] family = "cylindrical" ->
           CylindricalLensBuilder_extract_parameters(back_surface, front_surface,
                                                     material_argument).ok
      [] family = "toroidal" ->
           ToricLensBuilder_extract_parameters(back_surface, front_surface,
                                               material_argument).ok

\* the seven cells on which the table as written and the code agree
CommonCell(b, f) ==
    CASE b = 0 /\ f = 0 -> [shape |-> "Cylinder",     flipped |-> FALSE]
      [] b < 0 /\ f < 0 -> [shape |-> "Meniscus",     flipped |-> FALSE]
      [] b > 0 /\ f > 0 -> [shape |-> "Meniscus",     flipped |-> TRUE]
      [] b > 0 /\ f < 0 -> [shape |-> "BiConvex",     flipped |-> FALSE]
      [] b < 0 /\ f > 0 -> [shape |-> "BiConcave",    flipped |-> FALSE]
      [] b = 0 /\ f < 0 -> [shape |-> "PlanoConvex",  flipped |-> FALSE]
      [] b = 0 /\ f > 0 -> [shape |-> "PlanoConcave", flipped |-> FALSE]

\* the table with (+1, 0) the flip of plano-convex, (-1, 0) the flip of plano-concave
CellOfConvexFlip(b, f) ==
    IF f = 0 /\ b > 0 THEN [shape |-> "PlanoConvex", flipped |-> TRUE]
    ELSE IF f = 0 /\ b < 0 THEN [shape |-> "PlanoConcave", flipped |-> TRUE]
    ELSE CommonCell(b, f)

\* the table with (+1, 0) the flip of plano-concave, (-1, 0) the flip of plano-convex
CellOfConcaveFlip(b, f) ==
    IF f = 0 /\ b > 0 THEN [shape |-> "PlanoConcave", flipped |-> TRUE]
    ELSE IF f = 0 /\ b < 0 THEN [shape |-> "PlanoConvex", flipped |-> TRUE]
    ELSE CommonCell(b, f)

\* the primitive class of a shape in a family
ClassName(family, shape) ==
    IF shape = "Cylinder" THEN "Cylinder"
    ELSE CASE family = "spherical"   -> shape
           [] family = "cylindrical" -> "Cylindrical" \o shape
           [] family = "toroidal"    -> "Toric" \o shape

\* the local transform of the primitive turns its z axis over
IsFlipped(prim) == prim.transform.r[3][3] = 0 - 1

\* the outcome is the primitive of the cell
BuildsCell(outcome, family, cell) ==
    /\ outcome.ok
    /\ outcome.val.cls = ClassName(family, cell.shape)
    /\ IsFlipped(outcome.val) = cell.flipped

CallSigns == LensSigns(call.family, call.back, call.front, call.direction)

CallPassesPreconditions ==
    /\ call.fn = "lens"
    /\ PassesPreconditions(call.family, call.back, call.front, call.material)

(* C2: in each lens family a pair that passes the preconditions builds the *)
(* shape of its cell (back_sign, front_sign): (0,0) hands the back surface *)
(* to the cylinder builder; (-1,-1) meniscus; (+1,+1) flipped meniscus;    *)
(* (+1,-1) biconvex; (-1,+1) biconcave; (0,-1) plano-convex; (0,+1)        *)
(* plano-concave; (+1,0) the flip of plano-convex; (-1,0) the flip of      *)
(* plano-concave.  The CannotCreatePrimitive that ends the dispatch is     *)
(* never raised.                                                           *)
C2_ShapeTable ==
    CallPassesPreconditions =>
        IF CallSigns = <<0, 0>>
        THEN result = create_cylinder(call.back)
        ELSE BuildsCell(result, call.family, CellOfConvexFlip(CallSigns[1], CallSigns[2]))

(* C2 as written: (+1,0) is the flip of plano-concave, (-1,0) the flip of  *)
(* plano-convex.                                                           *)
C2_ShapeTableAsWritten ==
    CallPassesPreconditions =>
        IF CallSigns = <<0, 0>>
        THEN result = create_cylinder(call.back)
        ELSE BuildsCell(result, call.family, CellOfConcaveFlip(CallSigns[1], CallSigns[2]))

\* a pair of cell (+1, 0) has been built
C2_Witness ==
    /\ CallPassesPreconditions
    /\ CallSigns = <<1, 0>>
    /\ result.ok

IsFlat(surface) == surface.radius = 0 /\ surface.radius_horizontal = 0

(* C3: in every lens family a pair of two flat surfaces, the back one with *)
(* a material and both with a valid semi-diameter, builds the cylinder.    *)
C3_FlatPairBuildsCylinder ==
    (/\ call.fn = "lens"
     /\ IsFlat(call.back) /\ IsFlat(call.front)
     /\ call.back.material \in MATERIALS
     /\ ~call.back.has_aperture /\ ~call.front.has_aperture
     /\ ~check_for_small_numbers(call.back)
     /\ ~check_for_small_numbers(call.front)) =>
        /\ result.ok
        /\ result.val.cls = "Cylinder"

\* the pair of the call with back and front exchanged and both signs negated
ReversedBack ==
    [call.back EXCEPT !.kind = call.front.kind,
                      !.radius = 0 - call.front.radius,
                      !.radius_horizontal = 0 - call.front.radius_horizontal]

ReversedFront ==
    [call.front EXCEPT !.kind = call.back.kind,
                       !.radius = 0 - call.back.radius,
                       !.radius_horizontal = 0 - call.back.radius_horizontal]

FlippedCells == {<<1, 1>>, <<1, 0>>, <<0 - 1, 0>>}

\* the outcome is the same primitive as reversed, turned over by flip(center_thickness)
IsFlipOf(outcome, reversed) ==
    /\ reversed.ok
    /\ reversed.val.cls = outcome.val.cls
    /\ reversed.val.args = outcome.val.args
    /\ outcome.val.transform =
          MatMul(flip(outcome.val.args.center_thickness), reversed.val.transform)

(* C4: a lens built in a flipped cell ((+1,+1), (+1,0), (-1,0)) is the     *)
(* primitive the family builds for the reversed pair, same class and same  *)
(* arguments, under the transform flip(center_thickness); a lens built in  *)
(* another cell carries no flip.                                           *)
C4_FlipSymmetry ==
    (call.fn = "lens" /\ result.ok /\ result.val.cls # "Cylinder") =>
        IF CallSigns \in FlippedCells
        THEN IsFlipOf(result,
                      LensBuilder_build(call.family, ReversedBack, ReversedFront,
                                        call.direction, call.material))
        ELSE ~IsFlipped(result.val)

\* the curvature sign a mirror builder of the family extracts
MirrorCurvatureSign(family, surface) ==
    IF family = "cylindrical" /\ surface.radius = 0
    THEN sign(surface.radius_horizontal)
    ELSE sign(surface.radius)

\* the rotation that lays a horizontally curved cylindrical mirror on its axis
AxisRotation(family, surface) ==
    IF family = "cylindrical" /\ surface.radius = 0 THEN rotate_z(90) ELSE AffineMatrix3D

MirrorCall ==
    /\ call.fn = "mirror"
    /\ call.family \in {"spherical", "cylindrical", "toroidal"}
    /\ result.ok

CallCurvatureSign == MirrorCurvatureSign(call.family, call.surface)

-----------------------------------------------------------------------------
(* Properties of the classifier, the factory, the parser and the reader *)

\* determine_primitive_type has been called on a Standard or a Toroidal surface
ClassifiesCurved ==
    /\ call.fn = "determine_primitive_type"
    /\ call.surface.kind \in {"Standard", "Toroidal"}

\* the two radii of a surface differ by less than 1.0e-8
WithinTolerance(surface) ==
    Abs(Abs(surface.radius) - Abs(surface.radius_horizontal)) < EQUAL_TOLERANCE

(* C11: the classifier partitions the curvature data.  A Standard surface  *)
(* is FLAT iff its radius is 0 and SPHERICAL otherwise; a Toroidal surface *)
(* is FLAT iff both radii are 0, SPHERICAL iff both are nonzero and within *)
(* 1.0e-8 of each other in magnitude, TOROIDAL iff both are nonzero and    *)
(* not within 1.0e-8, CYLINDRICAL iff exactly one is 0; the type returned  *)
(* is one of the four and never UNDETERMINED.                              *)
C11_ClassificationPartitions ==
    (ClassifiesCurved /\ result.ok) =>
        LET s == call.surface
            type == result.val.surface_type
            v == s.radius # 0
            h == s.radius_horizontal # 0
        IN
        /\ type \in {"FLAT", "SPHERICAL", "TOROIDAL", "CYLINDRICAL"}
        /\ s.kind = "Standard" =>
             /\ (type = "FLAT") = ~v
             /\ (type = "SPHERICAL") = v
        /\ s.kind = "Toroidal" =>
             /\ (type = "FLAT") = (~v /\ ~h)
             /\ (type = "SPHERICAL") = (v /\ h /\ WithinTolerance(s))
             /\ (type = "TOROIDAL") = (v /\ h /\ ~WithinTolerance(s))
             /\ (type = "CYLINDRICAL") = (v # h)

\* a Toroidal surface whose radii differ, by less than the tolerance, has been classified
C11_Witness ==
    /\ ClassifiesCurved
    /\ result.ok
    /\ call.surface.kind = "Toroidal"
    /\ Abs(call.surface.radius) # Abs(call.surface.radius_horizontal)
    /\ WithinTolerance(call.surface)
    /\ result.val.surface_type = "SPHERICAL"

(* C12: the classifier is total over the surfaces of the factory.  For a   *)
(* Standard or Toroidal surface the factory made, determine_primitive_type *)
(* returns, with shape RECTANGULAR when the record carried a rectangular   *)
(* aperture (SQAP) and ROUND when it carried none.                         *)
C12_ClassificationTotal ==
    (ClassifiesCurved /\ call.made_by = "factory") =>
        /\ result.ok
        /\ result.val.shape_type =
             IF call.description.has_sqap THEN "RECTANGULAR" ELSE "ROUND"

-----------------------------------------------------------------------------
(* Properties of the node build returns *)

(* C13: when build returns a node, every child whose material exposes      *)
(* transmission_only has that attribute equal to the transmission_only     *)
(* argument of the call, whatever the attribute was before.                *)
C13_TransmissionOnlySet ==
    status = "returned" =>
        \A k \in 1..Len(children) :
            HasTransmissionOnly(children[k].material) =>
                material_attr[children[k].material] = transmission_only

\* a build has returned a child whose material had the opposite value before it
C13_Witness ==
    /\ status = "returned"
    /\ earlier.held
    /\ earlier.transmission_only # transmission_only
    /\ \E k \in 1..Len(children) : children[k].material \in earlier.materials

(* C14: builds are independent.  After a later build, the materials of the *)
(* children of the node an earlier build returned still have the           *)
(* transmission_only that was requested for that earlier build; the        *)
(* materials concerned are those of the catalogue, not objects the caller  *)
(* passed to both builds.                                                  *)
C14_BuildsIndependent ==
    earlier.held =>
        \A m \in earlier.materials \cap MATERIALS :
            material_attr[m] = earlier.transmission_only

(* C15: set_node_global_reference(node, idx), on a node whose placements   *)
(* are finite, replaces every child's transform by inverse(P) * its old    *)
(* transform, P the placement of child idx before any child was changed;   *)
(* child idx then has the identity transform, the relative placement       *)
(* inverse(c1.transform) * c2.transform of every two children is as        *)
(* before, and a second call with the same idx changes nothing.            *)
C15_GlobalReference ==
    (reference.called /\ \A k \in 1..Len(children) : ~reference.before[k].transform.nf) =>
        LET same(k1, a, b, before) ==
              \A k2 \in (k1 + 1)..Len(children) :
                 MatMul(a, children[k2].transform) = MatMul(b, before[k2].transform)
            rebased(before, Q) ==
              /\ Len(children) = Len(before)
              /\ \A k \in 1..Len(children) :
                   /\ children[k].transform = MatMul(Q, before[k].transform)
                   /\ [children[k] EXCEPT !.transform = AffineMatrix3D]
                        = [before[k] EXCEPT !.transform = AffineMatrix3D]
              /\ children[reference.idx + 1].transform = AffineMatrix3D
              /\ \A k1 \in 1..(Len(children) - 1) :
                   same(k1, inverse(children[k1].transform), inverse(before[k1].transform),
                        before)
              /\ reference.again => children = before
        IN rebased(reference.before, inverse(reference.before[reference.idx + 1].transform))

(* a node of two children, the second placed by a rotated and shifted      *)
(* transform, has been given its second child as the reference             *)
C15_Witness ==
    /\ reference.called
    /\ reference.idx = 1
    /\ Len(children) = 2
    /\ ~reference.before[1].transform.nf
    /\ ~reference.before[2].transform.nf
    /\ reference.before[2].transform.r # IdentityR
    /\ reference.before[2].transform.t # Vec(0, 0, 0)
    /\ reference.before[1].transform # reference.before[2].transform

\* the tags AbstractSurfaceBuilder.builders has a builder for
FactoryTags == {"COORDBRK", "STANDARD", "TILTSURF", "TOROIDAL", "BICONICX"}

(* C16: the factory produces a Surface exactly when the tag is in the      *)
(* table and the builder's parameter requirement is met: an unknown tag    *)
(* fails; a CoordinateBreak record fails with fewer than 5 keyed           *)
(* parameters and succeeds with 5 or more; a Toroidal record succeeds with *)
(* at least 1 keyed parameter and fails with none; a Standard record       *)
(* requires nothing.                                                       *)
C16_FactoryExact ==
    (call # NoCall /\ call.fn = "create") =>
        LET type == call.description.type
            n    == Cardinality(DOMAIN call.description.parm)
        IN
        /\ (type \notin FactoryTags) => ~result.ok
        /\ (type = "COORDBRK") => (result.ok <=> n >= 5)
        /\ (type \in {"TOROIDAL", "BICONICX"}) => (result.ok <=> n >= 1)
        /\ (type = "STANDARD") => result.ok

\* the 0-based indices of the SURF lines among the first i lines of the file
SurfLinesBefore(contents, i) ==
    {j \in 0..(i - 1) : contents[j + 1] # <<>> /\ contents[j + 1][1] = "SURF"}

\* the scaling of the surface at line j: 1e-3 after a 'UNIT MM' line, 1 otherwise
FactorAt(contents, j) ==
    IF \E k \in 0..(j - 1) : contents[k + 1] = <<"UNIT", "MM">>
    THEN MillimetreFactor ELSE MetreFactor

(* C17: ZMXreader.read returns one Surface per SURF line, in the order of  *)
(* the lines, each made by the factory from the block that starts at its   *)
(* SURF line and scaled by 1e-3 when a 'UNIT MM' line comes before it and  *)
(* by 1 otherwise; a failure of the parser or the factory aborts the read. *)
C17_ReadReturnsSurfacesInOrder ==
    (reader.status # "idle") =>
        LET contents == reader.contents
            made(j)  == read_surface(contents, j, FactorAt(contents, j))
        IN
        /\ Len(reader.surfaces) = Len(reader.at)
        /\ {reader.at[k] : k \in 1..Len(reader.at)} = SurfLinesBefore(contents, reader.i)
        /\ \A k \in 1..(Len(reader.at) - 1) : reader.at[k] < reader.at[k + 1]
        /\ \A k \in 1..Len(reader.at) :
              /\ made(reader.at[k]).ok
              /\ reader.surfaces[k] = made(reader.at[k]).val
              /\ reader.surfaces[k].thickness =
                    scaled(fromlines(lines_from(contents, reader.at[k])).val.disz,
                           FactorAt(contents, reader.at[k]))
        /\ (reader.status = "returned") =>
              /\ reader.i = Len(contents)
              /\ Len(reader.surfaces) >= 1
        /\ \A j \in SurfLinesBefore(contents, Len(contents)) :
              ~made(j).ok =>
                 /\ reader.i <= j
                 /\ reader.status # "returned"
                 /\ (reader.status = "raised" /\ reader.i = j) => reader.exc = made(j).exc

\* a read returned a surface that follows a 'UNIT MM' line and has a thickness
C17_Witness ==
    /\ reader.status = "returned"
    /\ reader.contents[1] = <<"UNIT", "MM">>
    /\ Len(reader.surfaces) = 1
    /\ reader.surfaces[1].thickness = 2 * MillimetreFactor

\* the lines fromlines splits into a command and a value
HasCommand(line) == Len(line) >= 2

\* the index of the SURF line that opens the next block, or Len(lines) + 1
NextSurf(lines) ==
    LET later == {j \in 2..Len(lines) : HasCommand(lines[j]) /\ lines[j][1] = "SURF"}
    IN IF later = {} THEN Len(lines) + 1
       ELSE CHOOSE j \in later : \A k \in later : j <= k

\* the block of the first surface: the lines before the next SURF line
FirstBlock(lines) == SubSeq(lines, 1, NextSurf(lines) - 1)

\* the index of the last line of the block with the tag, or 0
LastOf(block, tag) ==
    LET with == {j \in 1..Len(block) : HasCommand(block[j]) /\ block[j][1] = tag}
    IN IF with = {} THEN 0 ELSE CHOOSE j \in with : \A k \in with : k <= j

\* the index of the last PARM line of the block with the key, or 0
LastParm(block, key) ==
    LET with == {j \in 1..Len(block) :
                    /\ Len(block[j]) >= 3
                    /\ block[j][1] = "PARM"
                    /\ IntColumns[block[j][2]] = key}
    IN IF with = {} THEN 0 ELSE CHOOSE j \in with : \A k \in with : k <= j

\* the block has a line fromlines cannot read: a SQAP line without its second value
Unreadable(block) ==
    \E j \in 1..Len(block) :
        HasCommand(block[j]) /\ block[j][1] = "SQAP" /\ Len(block[j]) < 3

\* the record of a block of SURF, DISZ, GLAS and PARM lines: the last line of a tag wins
BlockRecord(block) ==
    LET keys == {k \in 0..9 : LastParm(block, k) # 0}
    IN [SurfaceDescription EXCEPT
          !.n = IntColumns[block[1][2]],
          !.disz = IF LastOf(block, "DISZ") = 0 THEN 0
                   ELSE FloatColumns[block[LastOf(block, "DISZ")][2]],
          !.glas = IF LastOf(block, "GLAS") = 0 THEN ""
                   ELSE block[LastOf(block, "GLAS")][2],
          !.parm = [k \in keys |-> FloatColumns[block[LastParm(block, k)][3]]]]

(* C18: fromlines returns the record built only from the lines before the  *)
(* next SURF line: no line of a later block affects it; a line with an     *)
(* unknown tag or with fewer than two columns leaves the record unchanged; *)
(* PARM lines accumulate into the keyed parameters; the last occurrence of *)
(* a repeated tag wins.                                                    *)
C18_BlockIsolation ==
    (call # NoCall /\ call.fn = "fromlines") =>
        LET block == FirstBlock(call.lines)
        IN
        /\ result.ok <=> ~Unreadable(block)
        /\ result.ok => result.val = BlockRecord(block)
        /\ result = fromlines(block)

\* a block with a repeated tag, followed by a later block that sets the same tag
C18_Witness ==
    /\ call # NoCall
    /\ call.fn = "fromlines"
    /\ result.ok
    /\ call.lines = << <<"SURF", "1">>, <<"DISZ", "0.02">>, <<"DISZ", "0.03">>,
                       <<"SURF", "2">>, <<"DISZ", "0.02">> >>
    /\ result.val.disz = 3
    /\ result.val.n = 1

-----------------------------------------------------------------------------
(* Properties of the walk: termination and the lens step *)

\* the index after iteration j: the index of the next iteration, or idx
IndexAfter(j) == IF j < Len(hist) THEN hist[j + 1].idx ELSE idx

\* every iteration raised, and was the last, or advanced the index by 1 or 2
IterationsAdvance ==
    /\ hist # <<>> => hist[1].idx = 0
    /\ hist = <<>> => idx = 0
    /\ \A j \in 1..Len(hist) :
          IF hist[j].what = "raise"
          THEN /\ j = Len(hist)
               /\ idx = hist[j].idx
               /\ status = "raised"
               /\ raised # NoException
          ELSE IndexAfter(j) - hist[j].idx \in {1, 2}
    /\ (status = "raised") => (hist # <<>> /\ LastStep.what = "raise")

\* every index is the current surface of one iteration at most, and idx stays within n
VisitedOnce ==
    /\ idx <= n_surfaces
    /\ Len(hist) <= n_surfaces
    /\ \A j \in 1..Len(hist) : hist[j].idx < n_surfaces
    /\ \A j \in 1..(Len(hist) - 1) : hist[j].idx < hist[j + 1].idx

\* a running call has a next step: the return, or one of the ways of an iteration
CanStep ==
    (status = "running") =>
        \/ idx >= n_surfaces
        \/ isCoordinateBreak(current_surface)
        \/ SkipsEmpty
        \/ process_inf_thickness(current_surface)
        \/ LET ends(L) == L.built \/ L.exc # NoException IN ends(LensOutcome)
        \/ LET ends(M) == M.built \/ M.exc # NoException \/ M.last # NoException
           IN ends(MirrorOutcome)

(* C19: build terminates on every finite sequence: each iteration of the   *)
(* walk raises or increases i by 1 or 2, no index is the current surface   *)
(* twice, i never exceeds n, the call makes n iterations at most and a     *)
(* running call always has its next step, so that it ends with a returned  *)
(* node or an exception.                                                   *)
C19_BuildTerminates ==
    (status # "idle") => (IterationsAdvance /\ VisitedOnce /\ CanStep)

\* a call returned after one iteration that advanced i by 2 to n
C19_Witness ==
    /\ status = "returned"
    /\ Len(surfaces) = 2
    /\ Len(hist) = 1
    /\ hist[1].what = "lens"
    /\ hist[1].idx = 0
    /\ idx = 2

\* the primitive iteration j emitted
ChildOf(j) == children[hist[j].n_children + 1]

\* the iterations in which some entry of hist has index i as its current surface
VisitsOf(i) == {j \in 1..Len(hist) : hist[j].idx = i}

(* C20: when a lens is built from (surface[i], surface[i+1]) it is         *)
(* parented with the transform T_before * local transform; if surface[i+1] *)
(* has a material, T advances by thickness[i] * (1 + 1e-6) and i by 1, and *)
(* surface[i+1] is the current surface of the next iteration; if it has    *)
(* none, T advances by thickness[i] + thickness[i+1] and i by 2, and       *)
(* surface[i+1] is never a current surface.                                *)
C20_LensStep ==
    (status # "idle" /\ ~reference.called) =>
        /\ \A j \in {k \in 1..Len(hist) : hist[k].what = "lens"} :
              LET i    == hist[j].idx
                  next == surfaces[i + 2]
              IN
              /\ i + 2 <= Len(surfaces)
              /\ Len(children) > hist[j].n_children
              /\ IF next.material # ""
                 THEN /\ IndexAfter(j) = i + 1
                      /\ (j < Len(hist) \/ i + 1 = idx)
                 ELSE /\ IndexAfter(j) = i + 2
                      /\ VisitsOf(i + 1) = {}
        /\ (hist # <<>> /\ LastStep.what = "lens") =>
              LET current  == surfaces[LastStep.idx + 1]
                  next     == surfaces[LastStep.idx + 2]
                  T_before == LastStep.transform
                  local(L) ==
                     /\ L.built
                     /\ ChildOf(Len(hist)).transform = MatMul(T_before, L.lens.transform)
              IN
              /\ local(build_lens(current, next, material_override(current, materials)))
              /\ current_transform =
                    MatMul(T_before,
                           IF next.material # ""
                           THEN [r |-> IdentityR,
                                 t |-> Vec(0, 0, current.thickness),
                                 p |-> Vec(0, 0, current.thickness),
                                 nf |-> FALSE]
                           ELSE IF next.thickness = Inf THEN translate(0, 0, Inf)
                           ELSE translate(0, 0, current.thickness + next.thickness))

\* a lens closed by a surface with material, which the next iteration worked on
C20_Witness ==
    /\ status # "idle"
    /\ ~reference.called
    /\ Len(hist) = 2
    /\ hist[1].what = "lens"
    /\ hist[2].idx = 1
    /\ surfaces[2].material # ""
    /\ surfaces[1].thickness > 0
    /\ hist[2].transform.p # Vec(0, 0, 0)

-----------------------------------------------------------------------------
(* Properties of the order of the candidates and of the mirror step *)

\* the lens builders before builder k raised CannotCreatePrimitive on the pair
LensFailedBefore(k, current, next, mat) ==
    \A j \in 1..(k - 1) :
        isCCP(AbstractLensBuilder_build(LensBuilders[j], current, next, mat))

\* the mirror and flat builders before builder k raised CannotCreatePrimitive
MirrorFailedBefore(k, current, direction, mat) ==
    \A j \in 1..(k - 1) :
        isCCP(AbstractMirrorBuilder_build(MirrorBuilders[j], current, direction, mat))

(* C21: lens builders are attempted for surface[i] only if surface[i+1]    *)
(* exists and is no CoordinateBreak; they are tried in the order toroidal, *)
(* spherical, cylindrical and the first success wins; the mirror and flat  *)
(* builders are tried only after every attempted lens builder raised       *)
(* CannotCreatePrimitive; one primitive at most is emitted per visited     *)
(* surface.                                                                *)
C21_CandidateOrder ==
    (status # "idle" /\ ~reference.called) =>
        /\ Len(children) = Cardinality(Built)
        /\ \A j \in Built : hist[j].n_children = Cardinality({k \in Built : k < j})
        /\ \A j \in 1..Len(hist) :
              hist[j].what = "lens" =>
                 /\ lookahead(hist[j].idx, surfaces)
                 /\ ~isCoordinateBreak(surfaces[hist[j].idx + 2])
        /\ (hist # <<>> /\ LastStep.what \in {"lens", "mirror"}) =>
              LET i       == LastStep.idx
                  current == surfaces[i + 1]
                  mat     == material_override(current, materials)
                  child   == children[LastStep.n_children + 1]
                  made(r) == r.ok /\ child = WithTransform(r.val, MatMul(LastStep.transform,
                                                                          r.val.transform))
              IN
              IF LastStep.what = "lens"
              THEN \E k \in DOMAIN LensBuilders :
                      /\ LensFailedBefore(k, current, surfaces[i + 2], mat)
                      /\ made(AbstractLensBuilder_build(LensBuilders[k], current,
                                                        surfaces[i + 2], mat))
              ELSE /\ lookahead(i, surfaces) =>
                         LensFailedBefore(Len(LensBuilders) + 1, current, surfaces[i + 2], mat)
                   /\ \E k \in DOMAIN MirrorBuilders :
                         /\ MirrorFailedBefore(k, current, LastStep.direction, mat)
                         /\ made(AbstractMirrorBuilder_build(MirrorBuilders[k], current,
                                                             LastStep.direction, mat))

\* a spherical lens was emitted after the toroidal lens builder had failed on the pair
C21_Witness ==
    /\ status # "idle"
    /\ ~reference.called
    /\ hist # <<>>
    /\ LastStep.what = "lens"
    /\ LET current == surfaces[LastStep.idx + 1]
           next    == surfaces[LastStep.idx + 2]
           mat     == material_override(current, materials)
       IN /\ isCCP(AbstractLensBuilder_build("toroidal", current, next, mat))
          /\ AbstractLensBuilder_build("spherical", current, next, mat).ok

(* C22: when a mirror or flat builder succeeds for surface[i], the builder *)
(* was called with the direction held before the surface's own toggle, the *)
(* primitive is parented with T_before * builder transform, T advances by  *)
(* thickness[i], the mirror counter and the direction are updated after    *)
(* that, and i advances by 1.                                              *)
C22_MirrorStep ==
    (status # "idle" /\ ~reference.called /\ hist # <<>> /\ LastStep.what = "mirror") =>
        LET h       == LastStep
            current == surfaces[h.idx + 1]
            mat     == material_override(current, materials)
            child   == children[h.n_children + 1]
            made(r) == r.ok /\ child = WithTransform(r.val, MatMul(h.transform, r.val.transform))
        IN
        /\ Len(children) = h.n_children + 1
        /\ \E k \in DOMAIN MirrorBuilders :
              /\ MirrorFailedBefore(k, current, h.direction, mat)
              /\ made(AbstractMirrorBuilder_build(MirrorBuilders[k], current, h.direction, mat))
        /\ current_transform = MatMul(h.transform, translate(0, 0, current.thickness))
        /\ IF current.material = "MIRROR"
           THEN /\ mirrors_passed = h.mirrors_passed + 1
                /\ current_direction =
                      (IF mirrors_passed % 2 = 1 THEN 0 - h.direction ELSE h.direction)
           ELSE /\ mirrors_passed = h.mirrors_passed
                /\ current_direction = h.direction
        /\ idx = h.idx + 1

(* a curved mirror of nonzero thickness has been built and has flipped the *)
(* direction: the primitive is placed without the thickness or the flip    *)
C22_Witness ==
    /\ status # "idle"
    /\ ~reference.called
    /\ hist # <<>>
    /\ LastStep.what = "mirror"
    /\ surfaces[LastStep.idx + 1].material = "MIRROR"
    /\ surfaces[LastStep.idx + 1].radius # 0
    /\ surfaces[LastStep.idx + 1].thickness # 0
    /\ current_direction # LastStep.direction
    /\ current_transform # LastStep.transform

-----------------------------------------------------------------------------
(* Properties of what the builders refuse and of what they let through *)

\* the SurfaceType a mirror builder of the family asks for
MirrorFamilyType(family) ==
    CASE family = "spherical"   -> "SPHERICAL"
      [] family = "cylindrical" -> "CYLINDRICAL"
      [] family = "toroidal"    -> "TOROIDAL"

\* a curved mirror builder has been called
CurvedMirrorCall ==
    /\ call.fn = "mirror"
    /\ call.family \in {"spherical", "cylindrical", "toroidal"}

\* determine_primitive_type gives the surface the SurfaceType of the family
ClassifiesTo(surface, family) ==
    LET t == determine_primitive_type(surface)
    IN t.ok /\ t.val.surface_type = MirrorFamilyType(family)

MixedSigns(surface) ==
    sign(surface.radius) * sign(surface.radius_horizontal) = 0 - 1

\* ToricLensBuilder().build has been called on a pair that passes every
\* test of _extract_parameters made before the two radii are compared
ToricPairCall ==
    /\ call.fn = "lens"
    /\ call.family = "toroidal"
    /\ (call.material = None => call.back.material # "")
    /\ ~check_for_small_numbers(call.back)
    /\ ~check_for_small_numbers(call.front)
    /\ call.back.kind = "Toroidal"
    /\ call.front.kind = "Toroidal"
    /\ \A s \in {call.back, call.front} :
          LET t == determine_primitive_type(s)
          IN t.ok /\ t.val.surface_type \in {"FLAT", "TOROIDAL"}

\* the outcome is an exception other than CannotCreatePrimitive raised by
\* the toroidal lens builder's own tests
ToricFatal(r) ==
    /\ ~r.ok
    /\ r.exc.origin = "toroidal_lens"
    /\ r.exc.type \in {"ValueError", "NotImplementedError"}

(* C24: the toroidal lens builder raises its fatal failure exactly for the *)
(* pairs in which the vertical and the horizontal radius of a surface have *)
(* opposite signs, and for no other pair: not for a pair with a flat face, *)
(* not for toroidal faces of radii of the same sign.                       *)
C24_ToricFatalOnlyForMixedSigns ==
    ToricPairCall =>
        (ToricFatal(result) <=> (MixedSigns(call.back) \/ MixedSigns(call.front)))

-----------------------------------------------------------------------------
(* Properties of the material lookup and of the thicknesses in a build *)

\* find_material raises CannotFindMaterial on the name
Unresolvable(name) ==
    LET f == find_material(name) IN ~f.ok /\ f.exc.type = "CannotFindMaterial"

(* C25: build does not fail with CannotFindMaterial on a surface for which *)
(* an override material is resolved, whatever primitive is built for it;   *)
(* without an override a surface that reaches the builders with a name the *)
(* catalogue cannot resolve makes build fail, and a primitive built for an *)
(* empty name carries the null material.                                   *)
C25_OverrideShieldsLookup ==
    /\ (status = "raised" /\ raised.type = "CannotFindMaterial") =>
          material_override(current_surface, materials) = None
    /\ \A j \in 1..Len(hist) :
          (/\ hist[j].what \in {"lens", "mirror", "raise"}
           /\ material_override(SurfaceOf(j), materials) = None
           /\ Unresolvable(SurfaceOf(j).material)) =>
              /\ hist[j].what = "raise"
              /\ status = "raised"
    /\ \A j \in Built :
          (/\ material_override(SurfaceOf(j), materials) = None
           /\ SurfaceOf(j).material = "") =>
              children[hist[j].n_children + 1].material = "NullMaterial"

-----------------------------------------------------------------------------
(* Properties of the fields *)

(* C26: Fields.set_attribute, given a list of values, stores the positions *)
(* x and y as given when the field type is 0 (angle), and multiplies by    *)
(* the units factor only the positions of field type 1 (object height) and *)
(* the other attributes.                                                   *)
C26_AnglesStoredAsGiven ==
    (call.fn = "set_attribute" /\ ~call.one_shot /\ result.ok) =>
        \A j \in 1..Len(call.values) :
            j <= Len(result.val) =>
                result.val[j][call.name] =
                    IF call.field_type = 0 /\ call.name \in {"x", "y"}
                    THEN scaled(call.values[j], MetreFactor)
                    ELSE scaled(call.values[j], call.units_factor)

(* C27: a surface of infinite thickness yields no primitive and adds no    *)
(* translation to T, as the current surface and as the front surface a     *)
(* lens consumes: the translation of T is finite in every state of build,  *)
(* every other thickness being finite.                                     *)
C27_InfiniteThicknessLeavesT ==
    (status # "idle") =>
        /\ \A j \in Built : SurfaceOf(j).thickness # Inf
        /\ ~current_transform.nf

\* every thickness of the sequence is finite
AllFinite == \A k \in 1..Len(surfaces) : surfaces[k].thickness # Inf

\* surface k was the back surface of a lens that is followed by a surface with material
PaddedBack(k) ==
    \E j \in 1..Len(hist) :
        /\ hist[j].what = "lens"
        /\ hist[j].idx + 1 = k
        /\ surfaces[k + 1].material # ""

\* what surface k adds to T when its thickness is counted once
AdvanceOf(k) ==
    IF isCoordinateBreak(surfaces[k])
    THEN MatMul(matrix(surfaces[k]), translate(0, 0, surfaces[k].thickness))
    ELSE IF PaddedBack(k) THEN translatePadded(surfaces[k].thickness)
    ELSE translate(0, 0, surfaces[k].thickness)

RECURSIVE Advanced(_)
\* T after the first k surfaces, each counted once
Advanced(k) ==
    IF k = 0 THEN AffineMatrix3D ELSE MatMul(Advanced(k - 1), AdvanceOf(k))

(* C28: when build returns on a sequence of finite thicknesses, T is the   *)
(* product, in order, of one advance per surface: its thickness along z    *)
(* (after its matrix, for a coordinate break), with the 1e-6 padding added *)
(* for the back surface of a lens followed by a surface with material and  *)
(* nothing else.                                                           *)
C28_ThicknessCountedOnce ==
    (status = "returned" /\ AllFinite) =>
        current_transform = Advanced(Len(surfaces))

\* build has returned after a lens that consumed a front surface of nonzero thickness
C28_Witness ==
    /\ status = "returned"
    /\ AllFinite
    /\ \E j \in 1..Len(hist) :
          /\ hist[j].what = "lens"
          /\ surfaces[hist[j].idx + 2].material = ""
          /\ surfaces[hist[j].idx + 2].thickness # 0

\* a Standard surface without aperture that passes _check_for_small_numbers
PlainStandard(s) ==
    /\ s.kind = "Standard"
    /\ ~s.has_aperture
    /\ s.semi_diameter >= SMALL_NUMBER
    /\ ~(0 < s.thickness /\ s.thickness < SMALL_NUMBER)

(* C29: a surface of material "MIRROR" that is followed by a surface other *)
(* than a coordinate break is given to the lens builders first, as any     *)
(* surface with material is: a lens is emitted for it when one of them     *)
(* accepts the pair, as the spherical one does for two plain Standard      *)
(* surfaces; the lens carries the catalogue's material of the name and the *)
(* mirror counter is advanced after it.  The mirror and flat builders get  *)
(* the surface only without lookahead or after every lens builder raised   *)
(* CannotCreatePrimitive.                                                  *)
C29_MirrorSurfaceOfferedToLensBuilders ==
    (/\ status # "idle"
     /\ ~reference.called
     /\ hist # <<>>
     /\ LastStep.what \in {"lens", "mirror"}
     /\ SurfaceOf(Len(hist)).material = "MIRROR") =>
        LET i       == LastStep.idx
            current == surfaces[i + 1]
            mat     == material_override(current, materials)
            child   == children[LastStep.n_children + 1]
        IN
        /\ (LastStep.what = "mirror") <=>
              (\/ ~lookahead(i, surfaces)
               \/ LensFailedBefore(Len(LensBuilders) + 1, current, surfaces[i + 2], mat))
        /\ (/\ lookahead(i, surfaces)
            /\ PlainStandard(current)
            /\ PlainStandard(surfaces[i + 2])) => LastStep.what = "lens"
        /\ mat = None => child.material = "MIRROR"
        /\ mirrors_passed = LastStep.mirrors_passed + 1

(* C29 as written: no lens is emitted whose back surface has the material  *)
(* "MIRROR".                                                               *)
C29_MirrorNeverBacksALens ==
    \A j \in 1..Len(hist) :
        hist[j].what = "lens" => SurfaceOf(j).material # "MIRROR"

\* a lens has been emitted for a back surface of material "MIRROR" and positive thickness
C29_Witness ==
    /\ status # "idle"
    /\ ~reference.called
    /\ hist # <<>>
    /\ LastStep.what = "lens"
    /\ SurfaceOf(Len(hist)).material = "MIRROR"
    /\ SurfaceOf(Len(hist)).thickness > 0
    /\ children[LastStep.n_children + 1].material = "MIRROR"
    /\ mirrors_passed = LastStep.mirrors_passed + 1

\* the surface is curved about one axis only
VerticalOnly(s) == s.radius # 0 /\ s.radius_horizontal = 0

HorizontalOnly(s) == s.radius = 0 /\ s.radius_horizontal # 0

(* C30: the cylindrical lens builder raises NotImplementedError only for a *)
(* pair whose two faces are curved about different axes, one with a        *)
(* vertical radius only and the other with a horizontal radius only: a     *)
(* pair of a flat face and a cylindrical face does not raise it.           *)
C30_UnsupportedOnlyForCrossedFaces ==
    (/\ call.fn = "lens"
     /\ call.family = "cylindrical"
     /\ ~result.ok
     /\ result.exc.type = "NotImplementedError") =>
        \/ (VerticalOnly(call.back) /\ HorizontalOnly(call.front))
        \/ (HorizontalOnly(call.back) /\ VerticalOnly(call.front))

=============================================================================
